---- MODULE Spec2Model ----
(***************************************************************************)
(* Dual-write provisioning of principals (staff, student, generic user):   *)
(* the route handlers that keep a Firebase Auth account (Identity          *)
(* Directory) and a MongoDB document (Profile Store) paired.               *)
(*                                                                         *)
(* Strings are tuples of one-character strings so that toLowerCase,        *)
(* toUpperCase, trim and the regular expressions are computed.             *)
(* Every handler runs against a context record c:                          *)
(*   ids   the Firebase accounts,        profs  the collections,           *)
(*   log   the calls issued so far,      ret    the value of the last call,*)
(*   uid   firebaseUser.uid (0: unset),  code/msg the HTTP reply.          *)
(***************************************************************************)
EXTENDS Integers, Sequences, FiniteSets, TLC

\* ------------------------------------------------------------------ bounds
MaxUid == 2
MaxOid == 2
MaxBatch == 2

\* ------------------------------------------------------------- characters
ToLowerChar(ch) ==
  CASE ch = "A" -> "a" [] ch = "B" -> "b" [] ch = "C" -> "c"
    [] ch = "S" -> "s" [] ch = "X" -> "x" [] OTHER -> ch

ToUpperChar(ch) ==
  CASE ch = "a" -> "A" [] ch = "b" -> "B" [] ch = "c" -> "C"
    [] ch = "s" -> "S" [] ch = "x" -> "X" [] OTHER -> ch

IsAlnum(ch) ==
  ch \in {"a", "b", "c", "s", "x", "A", "B", "C", "S", "X", "1", "2"}

ToLowerCase(s) == [i \in 1..Len(s) |-> ToLowerChar(s[i])]

ToUpperCase(s) == [i \in 1..Len(s) |-> ToUpperChar(s[i])]

RECURSIVE TrimStart(_)
TrimStart(s) ==
  IF s # <<>> /\ Head(s) = " " THEN TrimStart(Tail(s)) ELSE s

RECURSIVE TrimEnd(_)
TrimEnd(s) ==
  IF s # <<>> /\ s[Len(s)] = " " THEN TrimEnd(SubSeq(s, 1, Len(s) - 1)) ELSE s

Trim(s) == TrimEnd(TrimStart(s))

\* /^[^\s@]+@[^\s@]+\.[^\s@]+$/
EmailRegexTest(s) ==
  /\ \A i \in 1..Len(s) : s[i] # " "
  /\ Cardinality({i \in 1..Len(s) : s[i] = "@"}) = 1
  /\ \E p \in 1..Len(s) :
       /\ s[p] = "@"
       /\ p > 1
       /\ \E q \in 1..Len(s) : s[q] = "." /\ q > p + 1 /\ q < Len(s)

\* /^[A-Za-z0-9]+$/
RegNoRegexTest(s) == s # <<>> /\ \A i \in 1..Len(s) : IsAlnum(s[i])

\* !value of a request field: undefined and '' are both falsy
Missing(s) == s = <<>>

\* ------------------------------------------------------------------ state
VARIABLES
  idents,     \* Firebase Auth: set of [uid, email]
  profiles,   \* MongoDB: collection name -> set of documents
  last,       \* the response on its way to the client (handler, input,
              \* reply, calls issued), NoReply once the client has read it
  batch,      \* the bulk request in progress, or NoBatch
  pending,    \* uids whose deleteUser was issued but not awaited
  race,       \* two create requests in progress at once, or NoRace
  meetings    \* MongoDB: the Meeting collection

vars == <<idents, profiles, last, batch, pending, race, meetings>>

Kinds == {"staff", "student", "studentV2", "user"}

NoDoc == [oid |-> 0, extId |-> 0, email |-> <<>>, regNo |-> <<>>]

NoRet == [out |-> "", uid |-> 0, doc |-> NoDoc, n |-> 0]

NoInput ==
  [name |-> <<>>, group |-> <<>>, email |-> <<>>, password |-> <<>>,
   regNo |-> <<>>, status |-> "", id |-> 0, ns |-> "", type |-> "",
   newEmail |-> <<>>]

\* a request of a race: its body, the await it stands at (pc), firebaseUser
\* (uid), the uid its own createUser returned (made), the uids it passed to
\* deleteUser (dels), the error caught (err) and the status it answered
NoProc ==
  [in |-> NoInput, pc |-> "", uid |-> 0, made |-> 0, dels |-> {}, err |-> "",
   code |-> 0]

NoRace == [kind |-> "", procs |-> <<>>]

\* created is the handler's own list of uids to clean up; accounts are the
\* uids createUser returned during the request, inserted the documents saved,
\* calls the number of external calls made for each user of the list
NoBatch == [op |-> "", type |-> "", inputs |-> <<>>, results |-> <<>>,
            created |-> <<>>, accounts |-> {}, inserted |-> {}, calls |-> <<>>]

Ctx ==
  [ids |-> idents, profs |-> profiles, over |-> FALSE,
   log |-> <<>>, ret |-> NoRet, code |-> 0, msg |-> "", uid |-> 0,
   found |-> NoDoc, rep |-> <<>>, made |-> 0, acct |-> 0, items |-> <<>>]

\* Firebase uids and MongoDB _ids are fresh: the least number that no
\* account, document, batch or unawaited call refers to stands for one.
UsedUids(c) ==
  {a.uid : a \in c.ids} \cup {d.extId : d \in UNION {c.profs[k] : k \in Kinds}}
    \cup pending \cup {batch.created[i] : i \in 1..Len(batch.created)}

FreshUid(c) == CHOOSE n \in 1..(MaxUid + 1) : 
  /\ (n \notin UsedUids(c) \/ n = MaxUid + 1)
  /\ \A m \in 1..(n - 1) : m \in UsedUids(c)

UsedOids(c) == {d.oid : d \in UNION {c.profs[k] : k \in Kinds}}

FreshOid(c) == CHOOSE n \in 1..(MaxOid + 1) : 
  /\ (n \notin UsedOids(c) \/ n = MaxOid + 1)
  /\ \A m \in 1..(n - 1) : m \in UsedOids(c)

\* ------------------------------------------------ Identity Directory calls
LogCall(c, call, uid, email, out) ==
  [c EXCEPT !.log = Append(@, [call |-> call, uid |-> uid,
                               email |-> email, out |-> out])]

Returns(c, out, uid, doc, n) ==
  [c EXCEPT !.ret = [out |-> out, uid |-> uid, doc |-> doc, n |-> n]]

getUserByEmail(c, email, fail) ==
  IF fail
    THEN Returns(LogCall(c, "getUserByEmail", 0, email, "auth/internal-error"),
                 "auth/internal-error", 0, NoDoc, 0)
  ELSE IF \E a \in c.ids : a.email = email
    THEN LET a == CHOOSE x \in c.ids : x.email = email
         IN Returns(LogCall(c, "getUserByEmail", a.uid, email, "ok"),
                    "ok", a.uid, NoDoc, 0)
  ELSE Returns(LogCall(c, "getUserByEmail", 0, email, "auth/user-not-found"),
               "auth/user-not-found", 0, NoDoc, 0)

\* fault: "none", "weak" (auth/weak-password) or "other"
createUser(c, email, fault) ==
  LET out == IF fault = "weak" THEN "auth/weak-password"
             ELSE IF fault = "other" THEN "auth/internal-error"
             ELSE IF ~EmailRegexTest(email) THEN "auth/invalid-email"
             ELSE IF \E a \in c.ids : a.email = ToLowerCase(email)
               THEN "auth/email-already-exists"
             ELSE "ok"
  IN IF out = "ok"
       THEN Returns([LogCall(c, "createUser", FreshUid(c), email, "ok") EXCEPT
                       !.ids = @ \cup {[uid |-> FreshUid(c), email |-> ToLowerCase(email)]},
                       !.acct = FreshUid(c),
                       !.over = @ \/ FreshUid(c) > MaxUid],
                    "ok", FreshUid(c), NoDoc, 0)
       ELSE Returns(LogCall(c, "createUser", 0, email, out), out, 0, NoDoc, 0)

setCustomUserClaims(c, uid, fail) ==
  IF fail
    THEN Returns(LogCall(c, "setCustomUserClaims", uid, <<>>, "auth/internal-error"),
                 "auth/internal-error", uid, NoDoc, 0)
    ELSE Returns(LogCall(c, "setCustomUserClaims", uid, <<>>, "ok"),
                 "ok", uid, NoDoc, 0)

deleteUser(c, uid, fail) ==
  IF fail
    THEN Returns(LogCall(c, "deleteUser", uid, <<>>, "auth/internal-error"),
                 "auth/internal-error", uid, NoDoc, 0)
  ELSE IF \E a \in c.ids : a.uid = uid
    THEN Returns([LogCall(c, "deleteUser", uid, <<>>, "ok") EXCEPT
                    !.ids = {a \in @ : a.uid # uid}],
                 "ok", uid, NoDoc, 0)
  ELSE Returns(LogCall(c, "deleteUser", uid, <<>>, "auth/user-not-found"),
               "auth/user-not-found", uid, NoDoc, 0)

\* ----------------------------------------------------- Profile Store calls
Pick(S) == IF S = {} THEN NoDoc ELSE CHOOSE d \in S : TRUE

findOneByEmail(c, kind, email) ==
  LET d == Pick({x \in c.profs[kind] : x.email = email})
  IN Returns(LogCall(c, "findOne", d.extId, email, IF d = NoDoc THEN "null" ELSE "doc"),
             "ok", 0, d, 0)

findOneByRegNo(c, kind, regNo) ==
  LET d == Pick({x \in c.profs[kind] : x.regNo = regNo})
  IN Returns(LogCall(c, "findOne", d.extId, d.email, IF d = NoDoc THEN "null" ELSE "doc"),
             "ok", 0, d, 0)

findOneByExtId(c, kind, uid) ==
  LET d == Pick({x \in c.profs[kind] : x.extId = uid})
  IN Returns(LogCall(c, "findOne", uid, d.email, IF d = NoDoc THEN "null" ELSE "doc"),
             "ok", 0, d, 0)

findById(c, kind, oid) ==
  LET d == Pick({x \in c.profs[kind] : x.oid = oid})
  IN Returns(LogCall(c, "findById", d.extId, d.email, IF d = NoDoc THEN "null" ELSE "doc"),
             "ok", 0, d, 0)

\* unique index on email (models/User.js; the other schemas likewise)
EmailIndexed(coll, doc) == \E x \in coll : x.email = doc.email

\* unique index on the student registration number
RegNoIndexed(coll, doc) ==
  doc.regNo # <<>> /\ \E x \in coll : x.regNo = doc.regNo

\* doc.save() / Model.create(doc): fail injects a validation or network error
save(c, kind, doc, fail) ==
  LET out == IF fail THEN "error"
             ELSE IF EmailIndexed(c.profs[kind], doc) THEN "E11000 email"
             ELSE IF RegNoIndexed(c.profs[kind], doc) THEN "E11000 regNo"
             ELSE "ok"
      d == [doc EXCEPT !.oid = FreshOid(c)]
  IN IF out = "ok"
       THEN Returns([LogCall(c, "save", doc.extId, doc.email, "ok") EXCEPT
                       !.profs[kind] = @ \cup {d},
                       !.over = @ \/ FreshOid(c) > MaxOid],
                    "ok", 0, d, 0)
       ELSE Returns(LogCall(c, "save", doc.extId, doc.email, out), out, 0, NoDoc, 0)

deleteOneByEmail(c, kind, email, fail) ==
  LET S == {x \in c.profs[kind] : x.email = email}
  IN IF fail
       THEN Returns(LogCall(c, "deleteOne", 0, email, "error"), "error", 0, NoDoc, 0)
       ELSE Returns([LogCall(c, "deleteOne", 0, email, "ok") EXCEPT
                       !.profs[kind] = @ \ {Pick(S)}],
                    "ok", 0, Pick(S), IF S = {} THEN 0 ELSE 1)

deleteOneByExtId(c, kind, uid, fail) ==
  LET S == {x \in c.profs[kind] : x.extId = uid}
  IN IF fail
       THEN Returns(LogCall(c, "deleteOne", uid, <<>>, "error"), "error", 0, NoDoc, 0)
       ELSE Returns([LogCall(c, "deleteOne", uid, <<>>, "ok") EXCEPT
                       !.profs[kind] = @ \ {Pick(S)}],
                    "ok", 0, Pick(S), IF S = {} THEN 0 ELSE 1)

findByIdAndDelete(c, kind, oid, fail) ==
  LET S == {x \in c.profs[kind] : x.oid = oid}
  IN IF fail
       THEN Returns(LogCall(c, "findByIdAndDelete", 0, <<>>, "error"), "error", 0, NoDoc, 0)
       ELSE Returns([LogCall(c, "findByIdAndDelete", 0, <<>>, "ok") EXCEPT
                       !.profs[kind] = @ \ S],
                    "ok", 0, Pick(S), IF S = {} THEN 0 ELSE 1)

\* res.status(code).json(...)
Reply(c, code, msg) == [c EXCEPT !.code = code, !.msg = msg]

\* the handler's promise rejects and no response is sent
Crash(c, msg) == [c EXCEPT !.code = 0, !.msg = msg]

\* ----------------------------------------------------------------- inputs
EmailA == <<"a", "@", "x", ".", "c">>
EmailAUp == <<"A", "@", "X", ".", "c">>
EmailB == <<"b", "@", "x", ".", "c">>
EmailBad == <<"a", "x", ".", "c">>
EmailSp == <<" ", "b", "@", "x", ".", "c">>
RegLo == <<"c", "s", "1">>
RegUp == <<"C", "S", "1">>
RegX == <<"x", "2">>
RegBad == <<"c", "-", "1">>
PwOk == <<"s", "e", "c", "r", "e", "t">>
PwShort == <<"s", "e", "c">>
SomeName == <<"n">>
SomeGroup == <<"g">>

Emails == {EmailA, EmailAUp, EmailB}

\* name, department|program, email, password
BasicInput(e) ==
  [NoInput EXCEPT !.name = SomeName, !.group = SomeGroup, !.email = e,
                  !.password = PwOk]

BasicInputs == {BasicInput(e) : e \in Emails}

BadBasicInputs ==
  {BasicInput(EmailBad), BasicInput(EmailSp),
   [BasicInput(EmailB) EXCEPT !.password = PwShort],
   [BasicInput(EmailB) EXCEPT !.name = <<>>]}

\* name, program, email, password, regNo, status
StudentInput(e, r) == [BasicInput(e) EXCEPT !.regNo = r, !.status = "Active"]

StudentInputs ==
  {StudentInput(e, r) : e \in Emails, r \in {RegLo, RegUp, RegX}}
    \cup {[StudentInput(EmailB, RegX) EXCEPT !.status = "Hold"]}

BadStudentInputs ==
  {StudentInput(EmailB, RegBad), StudentInput(EmailBad, RegX),
   [StudentInput(EmailB, RegX) EXCEPT !.status = "Left"],
   [StudentInput(EmailB, RegX) EXCEPT !.password = PwShort],
   [StudentInput(EmailB, RegX) EXCEPT !.regNo = <<>>]}

\* which external call of a create fails for a reason outside the model
\* (at), and whether a deleteUser issued by the request fails (del)
NoFault == [at |-> "none", del |-> FALSE]

CreateFaults ==
  {[at |-> a, del |-> FALSE] :
     a \in {"none", "lookup", "weak", "create", "claims", "save"}}
    \cup {[at |-> "save", del |-> TRUE]}

\* a request body with the faults that can reach an external call
Cases(good, bad, faults) ==
  {<<in, f>> : in \in good, f \in faults} \cup {<<in, NoFault>> : in \in bad}

CreateFault(f) ==
  IF f.at = "weak" THEN "weak" ELSE IF f.at = "create" THEN "other" ELSE "none"

IsDuplicateKey(err) == err \in {"E11000 email", "E11000 regNo"}

\* err.code === 'auth/user-not-found'
IsUserNotFound(out) == out = "auth/user-not-found"

\* const Model = type === 'staff' ? Staff : Student
TypeModel(type) == IF type = "staff" THEN "staff" ELSE "studentV2"

\* -------------------------------------------- POST /api/staff/staff
StaffDoc(uid, lowerEmail) ==
  [oid |-> 0, extId |-> uid, email |-> lowerEmail, regNo |-> <<>>]

\* catch (err): c.uid is firebaseUser.uid, 0 while firebaseUser is null
StaffCreateCatch(c, err, f) ==
  LET c1 == IF c.uid # 0 THEN deleteUser(c, c.uid, f.del) ELSE c
  IN IF IsDuplicateKey(err)
       THEN Reply(c1, 400, "Staff email already exists in database")
     ELSE IF err = "auth/email-already-exists"
       THEN Reply(c1, 400, "Email already registered")
     ELSE Reply(c1, 500, "Failed to add staff")

StaffSave(c, lowerEmail, f) ==
  LET c1 == save(c, "staff", StaffDoc(c.uid, lowerEmail), f.at = "save")
  IN IF c1.ret.out = "ok"
       THEN Reply(c1, 201, "Staff member added successfully")
       ELSE StaffCreateCatch(c1, c1.ret.out, f)

StaffCreateRun(in, f) ==
  IF Missing(in.name) \/ Missing(in.group) \/ Missing(in.email)
       \/ Missing(in.password)
    THEN Reply(Ctx, 400, "Name, department, email, and password are required")
  ELSE IF ~EmailRegexTest(in.email)
    THEN Reply(Ctx, 400, "Invalid email format")
  ELSE IF Len(in.password) < 6
    THEN Reply(Ctx, 400, "Password must be 6+ chars")
  ELSE
    LET lowerEmail == Trim(ToLowerCase(in.email))
        c1 == findOneByEmail(Ctx, "staff", lowerEmail)
        c2 == getUserByEmail(c1, lowerEmail, f.at = "lookup")
        c3 == createUser(c2, lowerEmail, CreateFault(f))
    IN IF c1.ret.doc # NoDoc
         THEN Reply(c1, 400, "Staff email already exists in database")
       ELSE IF c2.ret.out = "ok"
         THEN StaffSave([c2 EXCEPT !.uid = c2.ret.uid], lowerEmail, f)
       ELSE IF c2.ret.out # "auth/user-not-found"
         THEN StaffCreateCatch(c2, c2.ret.out, f)
       ELSE IF c3.ret.out = "ok"
         THEN StaffSave([c3 EXCEPT !.uid = c3.ret.uid], lowerEmail, f)
       ELSE IF c3.ret.out = "auth/email-already-exists"
         THEN Reply(c3, 400, "Email already exists in Firebase")
       ELSE StaffCreateCatch(c3, c3.ret.out, f)

\* -------------------------------------------- POST /api/students/student
\* variant: the registration number is kept as typed
UpperRegNoAsTyped(regNo) == Trim(regNo)

\* regNo.toUpperCase().trim()
UpperRegNo(regNo) == Trim(ToUpperCase(regNo))

\* variant: the document is built without the Firebase uid
StudentDocNoUid(uid, lowerEmail, upperRegNo) ==
  [oid |-> 0, extId |-> 0, email |-> lowerEmail, regNo |-> upperRegNo]

StudentDoc(uid, lowerEmail, upperRegNo) ==
  [oid |-> 0, extId |-> uid, email |-> lowerEmail, regNo |-> upperRegNo]

StudentCreateCatch(c, err, f) ==
  LET c1 == IF c.uid # 0 THEN deleteUser(c, c.uid, f.del) ELSE c
  IN IF err = "E11000 email"
       THEN Reply(c1, 400, "Student email already exists in database")
     ELSE IF err = "E11000 regNo"
       THEN Reply(c1, 400, "Registration number already exists in database")
     ELSE Reply(c1, 500, "Failed to add student")

\* the tail shared by both student routers: lookup, createUser, save
StudentProvision(c, kind, in, lowerEmail, upperRegNo, f) ==
  LET c2 == getUserByEmail(c, lowerEmail, f.at = "lookup")
      c3 == createUser(c2, lowerEmail, CreateFault(f))
      c4 == save([c3 EXCEPT !.uid = c3.ret.uid], kind,
                 StudentDoc(c3.ret.uid, lowerEmail, upperRegNo), f.at = "save")
  IN IF c2.ret.out = "ok"
       THEN Reply(c2, 400, "Email already exists in Firebase authentication system")
     ELSE IF c2.ret.out # "auth/user-not-found"
       THEN Reply(c2, 400, "Firebase error")
     ELSE IF c3.ret.out = "auth/email-already-exists"
       THEN Reply(c3, 400, "Email already exists in Firebase authentication system")
     ELSE IF c3.ret.out = "auth/invalid-email"
       THEN Reply(c3, 400, "Invalid email address")
     ELSE IF c3.ret.out = "auth/weak-password"
       THEN Reply(c3, 400, "Password is too weak")
     ELSE IF c3.ret.out # "ok"
       THEN StudentCreateCatch(c3, c3.ret.out, f)
     ELSE IF c4.ret.out = "ok"
       THEN Reply(c4, 201, "Student added successfully")
     ELSE StudentCreateCatch(c4, c4.ret.out, f)

StudentCreateRun(in, f) ==
  IF Missing(in.name) \/ Missing(in.group) \/ Missing(in.email)
       \/ Missing(in.password) \/ Missing(in.regNo) \/ in.status = ""
    THEN Reply(Ctx, 400, "Name, registration number, program, email, password, and status are required")
  ELSE IF in.status # "Active" /\ in.status # "Hold"
    THEN Reply(Ctx, 400, "Status must be either Active or Hold")
  ELSE IF ~EmailRegexTest(in.email)
    THEN Reply(Ctx, 400, "Invalid email format")
  ELSE IF ~RegNoRegexTest(in.regNo)
    THEN Reply(Ctx, 400, "Registration number must be alphanumeric")
  ELSE IF Len(in.password) < 6
    THEN Reply(Ctx, 400, "Password must be at least 6 characters")
  ELSE
    LET lowerEmail == Trim(ToLowerCase(in.email))
        upperRegNo == UpperRegNo(in.regNo)
        c1 == findOneByEmail(Ctx, "student", lowerEmail)
        c2 == findOneByRegNo(c1, "student", upperRegNo)
    IN IF c1.ret.doc # NoDoc
         THEN Reply(c1, 400, "Student email already exists in database")
       ELSE IF c2.ret.doc # NoDoc
         THEN Reply(c2, 400, "Registration number already exists in database")
       ELSE StudentProvision(c2, "student", in, lowerEmail, upperRegNo, f)

\* -------------------------------------------- POST /student (StudentV2 router)
StudentV2CreateRun(in, f) ==
  IF Missing(in.name) \/ Missing(in.group) \/ Missing(in.email)
       \/ Missing(in.password)
    THEN Reply(Ctx, 400, "Name, program, email, and password are required")
  ELSE IF ~EmailRegexTest(in.email)
    THEN Reply(Ctx, 400, "Invalid email format")
  ELSE IF Len(in.password) < 6
    THEN Reply(Ctx, 400, "Password must be at least 6 characters")
  ELSE
    LET lowerEmail == Trim(ToLowerCase(in.email))
        c1 == findOneByEmail(Ctx, "studentV2", lowerEmail)
    IN IF c1.ret.doc # NoDoc
         THEN Reply(c1, 400, "Student email already exists in database")
       ELSE StudentProvision(c1, "studentV2", in, lowerEmail, <<>>, f)

\* -------------------------------------------- UserController.createUser
\* firebaseUser is declared inside the try block, so the catch block's
\* `if (firebaseUser)` throws a ReferenceError: no cleanup, no response.
UserCreateCatch(c) == Crash(c, "ReferenceError: firebaseUser is not defined")

\* variant: the profile keeps the address in upper case
UserDocUpper(uid, email) ==
  [oid |-> 0, extId |-> uid, email |-> ToUpperCase(email), regNo |-> <<>>]

UserDoc(uid, email) ==
  [oid |-> 0, extId |-> uid, email |-> email, regNo |-> <<>>]

UserCreateRun(in, f) ==
  LET c1 == findOneByEmail(Ctx, "user", ToLowerCase(in.email))
      c2 == createUser(c1, ToLowerCase(in.email),
                       IF Len(in.password) < 6 THEN "weak" ELSE CreateFault(f))
      c3 == setCustomUserClaims([c2 EXCEPT !.uid = c2.ret.uid], c2.ret.uid,
                                f.at = "claims")
      c4 == save(c3, "user", UserDoc(c3.uid, Trim(ToLowerCase(in.email))),
                 f.at = "save" \/ Missing(in.name))
  IN IF c1.ret.doc # NoDoc
       THEN Reply(c1, 400, "User with this email already exists")
     ELSE IF c2.ret.out # "ok" THEN Reply(c2, 400, "Firebase error")
     ELSE IF c3.ret.out # "ok" THEN Reply(c3, 400, "Firebase error")
     ELSE IF c4.ret.out = "ok" THEN Reply(c4, 201, "created successfully")
     ELSE UserCreateCatch(c4)

\* ------------------------------------------------------------- bulk input
Unknown == <<"u", "n", "k", "n", "o", "w", "n">>

BulkFaults ==
  {[at |-> a, del |-> FALSE] : a \in {"none", "lookup", "create", "save"}}

BulkBasicInputs == {BasicInput(EmailAUp), BasicInput(EmailB)}

BadBulkBasicInputs == {BasicInput(EmailBad), BasicInput(EmailSp)}

BulkStudentInputs ==
  {StudentInput(EmailAUp, RegLo), StudentInput(EmailB, RegUp),
   StudentInput(EmailB, RegX)}

BadBulkStudentInputs == {StudentInput(EmailB, RegBad)}

\* results.push({ email, success, error })
Item(c, success, email, msg) ==
  [c EXCEPT !.code = IF success THEN 1 ELSE 0, !.msg = msg, !.rep = email]

\* createdUids.push(firebaseUser.uid)
Track(c) == [c EXCEPT !.uid = c.ret.uid, !.made = c.ret.uid]

\* ---------------------- POST /api/staff/bulk-users?type=staff|student, one user
StaffBulkItemRun(in, type, f) ==
  LET email == Trim(ToLowerCase(in.email))
      c1 == getUserByEmail(Ctx, email, f.at = "lookup")
      c2 == createUser(c1, email, CreateFault(f))
      c3 == IF c1.ret.out = "ok" THEN [c1 EXCEPT !.uid = c1.ret.uid]
            ELSE Track(c2)
      c4 == findOneByEmail(c3, TypeModel(type), email)
      c5 == save(c4, TypeModel(type), StaffDoc(c3.uid, email), f.at = "save")
  IN IF Missing(in.name) \/ Missing(in.group) \/ Missing(email)
          \/ Missing(in.password)
       THEN Item(Ctx, FALSE, IF Missing(email) THEN Unknown ELSE email,
                 "Missing required fields")
     ELSE IF ~EmailRegexTest(email)
       THEN Item(Ctx, FALSE, email, "Invalid email format")
     ELSE IF Len(in.password) < 6
       THEN Item(Ctx, FALSE, email, "Password must be at least 6 characters")
     ELSE IF c1.ret.out # "ok" /\ ~IsUserNotFound(c1.ret.out)
       THEN Item(c1, FALSE, email, c1.ret.out)
     ELSE IF c1.ret.out # "ok" /\ c2.ret.out # "ok"
       THEN Item(c2, FALSE, email, "Firebase error")
     ELSE IF c4.ret.doc # NoDoc
       THEN Item(c4, FALSE, email, "already exists in database")
     ELSE IF c5.ret.out # "ok" THEN Item(c5, FALSE, email, c5.ret.out)
     ELSE Item(c5, TRUE, email, "")

\* -------------------------- the student routers' POST /bulk-users, one user
StudentBulkProvision(c, kind, in, lowerEmail, upperRegNo, f) ==
  LET c1 == getUserByEmail(c, lowerEmail, f.at = "lookup")
      c2 == findOneByEmail(c1, kind, lowerEmail)
      c3 == IF kind = "student" THEN findOneByRegNo(c2, kind, upperRegNo)
            ELSE c2
      c4 == createUser(c3, lowerEmail, CreateFault(f))
      c5 == save(Track(c4), kind, StudentDoc(c4.ret.uid, lowerEmail, upperRegNo),
                 f.at = "save")
  IN IF c1.ret.out = "ok"
       THEN Item(c1, FALSE, lowerEmail, "Email already exists in Firebase")
     ELSE IF ~IsUserNotFound(c1.ret.out)
       THEN Item(c1, FALSE, lowerEmail, "Firebase error")
     ELSE IF c2.ret.doc # NoDoc
       THEN Item(c2, FALSE, lowerEmail, "Email already exists in database")
     ELSE IF c3.ret.doc # NoDoc
       THEN Item(c3, FALSE, lowerEmail,
                 "Registration number already exists in database")
     ELSE IF c4.ret.out # "ok"
       THEN Item(c4, FALSE, lowerEmail, "Firebase creation failed")
     ELSE IF c5.ret.out # "ok" THEN Item(c5, FALSE, lowerEmail, c5.ret.out)
     ELSE Item(c5, TRUE, lowerEmail, "")

StudentBulkItemRun(in, f) ==
  IF Missing(in.name) \/ Missing(in.group) \/ Missing(in.email)
       \/ Missing(in.password) \/ Missing(in.regNo) \/ in.status = ""
    THEN Item(Ctx, FALSE, IF Missing(in.email) THEN Unknown ELSE in.email,
              "Missing required fields")
  ELSE IF in.status # "Active" /\ in.status # "Hold"
    THEN Item(Ctx, FALSE, in.email, "Status must be either Active or Hold")
  ELSE IF ~EmailRegexTest(in.email)
    THEN Item(Ctx, FALSE, in.email, "Invalid email format")
  ELSE IF ~RegNoRegexTest(in.regNo)
    THEN Item(Ctx, FALSE, in.email, "Registration number must be alphanumeric")
  ELSE IF Len(in.password) < 6
    THEN Item(Ctx, FALSE, in.email, "Password must be at least 6 characters")
  ELSE StudentBulkProvision(Ctx, "student", in, Trim(ToLowerCase(in.email)),
                            UpperRegNo(in.regNo), f)

StudentV2BulkItemRun(in, f) ==
  IF Missing(in.name) \/ Missing(in.group) \/ Missing(in.email)
       \/ Missing(in.password)
    THEN Item(Ctx, FALSE, IF Missing(in.email) THEN Unknown ELSE in.email,
              "Missing required fields")
  ELSE IF ~EmailRegexTest(in.email)
    THEN Item(Ctx, FALSE, in.email, "Invalid email format")
  ELSE IF Len(in.password) < 6
    THEN Item(Ctx, FALSE, in.email, "Password must be at least 6 characters")
  ELSE StudentBulkProvision(Ctx, "studentV2", in, Trim(ToLowerCase(in.email)),
                            <<>>, f)

\* -------------------------- UserController.bulkCreateUsers, one user
UserBulkItemRun(in, f) ==
  LET c1 == findOneByEmail(Ctx, "user", ToLowerCase(in.email))
      c2 == createUser(c1, ToLowerCase(in.email), CreateFault(f))
      c3 == setCustomUserClaims([c2 EXCEPT !.uid = c2.ret.uid], c2.ret.uid,
                                f.at = "claims")
      c4 == save([c3 EXCEPT !.made = c3.uid], "user",
                 UserDoc(c3.uid, Trim(ToLowerCase(in.email))), f.at = "save")
  IN IF Missing(in.name) \/ Missing(in.email) \/ Missing(in.password)
          \/ in.type = ""
       THEN Item(Ctx, FALSE, IF Missing(in.email) THEN Unknown ELSE in.email,
                 "Missing required fields")
     ELSE IF c1.ret.doc # NoDoc
       THEN Item(c1, FALSE, in.email, "User already exists")
     ELSE IF c2.ret.out # "ok" THEN Item(c2, FALSE, in.email, "Firebase error")
     ELSE IF c3.ret.out # "ok" THEN Item(c3, FALSE, in.email, "Firebase error")
     ELSE IF c4.ret.out # "ok" THEN Item(c4, FALSE, in.email, c4.ret.out)
     ELSE Item(c4, TRUE, in.email, "")

\* --------------------------------------------- after the loop over the users
AnyFailed(results) == \E i \in 1..Len(results) : ~results[i].success

NoneSucceeded(results) == \A i \in 1..Len(results) : ~results[i].success

\* for (const fbUser of created) { try { await deleteUser } catch {} }
RECURSIVE DeleteEach(_, _, _)
DeleteEach(c, uids, failing) ==
  IF uids = <<>> THEN c
  ELSE DeleteEach(deleteUser(c, Head(uids), Head(uids) \in failing),
                  Tail(uids), failing)

\* createdUids.forEach(uid => deleteUser(uid).catch(() => {})): issued only
RECURSIVE IssueEach(_, _)
IssueEach(c, uids) ==
  IF uids = <<>> THEN c
  ELSE IssueEach(LogCall(c, "deleteUser", Head(uids), <<>>, "issued"), Tail(uids))

CleansUp(b) == AnyFailed(b.results) /\ b.created # <<>>

\* the per-user array of the response body
Results(c, items) == [c EXCEPT !.items = items]

\* variant: the clean-up also removes the documents saved in the request
StudentBulkFinishRunRollback(b, failing) ==
  Reply(Results(IF CleansUp(b)
                  THEN [DeleteEach(Ctx, b.created, failing) EXCEPT
                          !.profs = [k \in Kinds |-> @[k] \ b.inserted]]
                  ELSE Ctx,
                b.results),
        200, "Bulk upload completed")

StudentBulkFinishRun(b, failing) ==
  Reply(Results(IF CleansUp(b) THEN DeleteEach(Ctx, b.created, failing) ELSE Ctx,
                b.results),
        200, "Bulk upload completed")

StaffBulkFinishRun(b) ==
  Reply(Results(IF CleansUp(b) THEN IssueEach(Ctx, b.created) ELSE Ctx,
                b.results),
        200, "Bulk upload completed")

\* the profiles created are createdUsers, the successes results.success
UserBulkCleansUp(b) == NoneSucceeded(b.results) /\ b.inserted = {}

\* results.errors, one string per failed user
UserBulkErrors(b) == SelectSeq(b.results, LAMBDA r : ~r.success)

\* createdUsers.map(u => u.getProfile())
UserBulkUsers(b) ==
  [i \in 1..Len(SelectSeq(b.results, LAMBDA r : r.success)) |->
     [email |-> Trim(ToLowerCase(SelectSeq(b.results, LAMBDA r : r.success)[i].email)),
      success |-> TRUE]]

\* the response carries the counts, the errors and the users created
UserBulkFinishRun(b, failing) ==
  IF UserBulkCleansUp(b)
    THEN Reply(Results(DeleteEach(Ctx, b.created, failing), UserBulkErrors(b)),
               400, "All users failed to create")
    ELSE Reply(Results(Ctx, UserBulkErrors(b) \o UserBulkUsers(b)),
               200, "Created users")

\* ------------------------------------------------------------ delete input
\* which external call of a delete fails for a reason outside the model
DeleteFaults ==
  {[at |-> a, del |-> FALSE] : a \in {"none", "lookup", "remove"}}
    \cup {[at |-> "none", del |-> TRUE]}

ById(n) == [NoInput EXCEPT !.id = n, !.ns = "oid"]
ByUid(n) == [NoInput EXCEPT !.id = n, !.ns = "uid"]
ByEmail(e, t) == [NoInput EXCEPT !.email = e, !.type = t]

Found(c, d) == [c EXCEPT !.found = d]

\* -------------------------------------------- DELETE /api/staff/:id
StaffDeleteByIdRun(in, f) ==
  LET c1 == findOneByExtId(Ctx, "staff", in.id)
      c2 == deleteUser(Found(c1, c1.ret.doc), in.id, f.del)
      c3 == deleteOneByExtId(c2, "staff", in.id, f.at = "remove")
  IN IF c1.ret.doc = NoDoc THEN Reply(c1, 404, "Staff not found")
     ELSE IF c3.ret.out # "ok" THEN Reply(c3, 500, "Failed to delete staff")
     ELSE Reply(c3, 200, "Staff deleted successfully")

\* -------------------------------------------- DELETE /api/staff/users
UsersDeleteRun(in, f) ==
  LET lowerEmail == Trim(ToLowerCase(in.email))
      c1 == getUserByEmail(Ctx, lowerEmail, f.at = "lookup")
      c2 == IF c1.ret.out = "ok" THEN deleteUser(c1, c1.ret.uid, f.del) ELSE c1
      c3 == deleteOneByEmail(c2, TypeModel(in.type), lowerEmail, f.at = "remove")
  IN IF Missing(in.email) \/ in.type = ""
       THEN Reply(Ctx, 400, "Email and type (staff/student) are required")
     ELSE IF in.type \notin {"staff", "student"}
       THEN Reply(Ctx, 400, "Type must be either staff or student")
     ELSE IF c3.ret.out # "ok" THEN Reply(c3, 500, "Failed to delete user")
     ELSE IF c3.ret.n = 0 THEN Reply(c3, 404, "not found in database")
     ELSE Reply(Found(c3, c3.ret.doc), 200, "deleted successfully")

\* -------------------------------------------- DELETE /api/students/student/:id
\* variant: auth/user-not-found is answered 400 like any other error
DeleteToleratesNothing(out) == FALSE

\* firebaseErr.code !== 'auth/user-not-found' answers 400
DeleteTolerates(out) == out = "auth/user-not-found"

\* variant: a student that is not found counts as deleted
StudentDeleteRunIdempotent(in, f) ==
  LET c1 == findById(Ctx, "student", in.id)
      c2 == deleteUser(Found(c1, c1.ret.doc), c1.ret.doc.extId, f.del)
      c3 == findByIdAndDelete(c2, "student", in.id, f.at = "remove")
  IN IF in.ns # "oid" THEN Reply(Ctx, 400, "Invalid student ID format")
     ELSE IF c1.ret.doc = NoDoc THEN Reply(c1, 200, "Student deleted successfully")
     ELSE IF c2.ret.out # "ok" /\ ~DeleteTolerates(c2.ret.out)
       THEN Reply(c2, 400, "Firebase deletion failed")
     ELSE IF c3.ret.out # "ok" THEN Reply(c3, 500, "Failed to delete student")
     ELSE Reply(c3, 200, "Student deleted successfully")

StudentDeleteRun(in, f) ==
  LET c1 == findById(Ctx, "student", in.id)
      c2 == deleteUser(Found(c1, c1.ret.doc), c1.ret.doc.extId, f.del)
      c3 == findByIdAndDelete(c2, "student", in.id, f.at = "remove")
  IN IF in.ns # "oid" THEN Reply(Ctx, 400, "Invalid student ID format")
     ELSE IF c1.ret.doc = NoDoc THEN Reply(c1, 404, "Student not found")
     ELSE IF c2.ret.out # "ok" /\ ~DeleteTolerates(c2.ret.out)
       THEN Reply(c2, 400, "Firebase deletion failed")
     ELSE IF c3.ret.out # "ok" THEN Reply(c3, 500, "Failed to delete student")
     ELSE Reply(c3, 200, "Student deleted successfully")

\* -------------------------------------------- DELETE /:id (StudentV2 router)
\* the id is tried as a Firebase UID first, then as a MongoDB _id
StudentV2DeleteRun(in, f) ==
  LET c1 == findOneByExtId(Ctx, "studentV2", IF in.ns = "uid" THEN in.id ELSE 0)
      c2 == IF c1.ret.doc = NoDoc
              THEN findById(c1, "studentV2", IF in.ns = "oid" THEN in.id ELSE 0)
              ELSE c1
      d == c2.ret.doc
      c3 == getUserByEmail(Found(c2, d), d.email, f.at = "lookup")
      c4 == IF d.extId # 0 THEN deleteUser(Found(c2, d), d.extId, f.del)
            ELSE IF c3.ret.out = "ok" THEN deleteUser(c3, c3.ret.uid, f.del)
            ELSE c3
      c5 == findByIdAndDelete(c4, "studentV2", d.oid, f.at = "remove")
  IN IF d = NoDoc THEN Reply(c2, 404, "Student not found")
     ELSE IF c5.ret.out # "ok" THEN Reply(c5, 500, "Failed to delete student")
     ELSE Reply(c5, 200, "Student deleted successfully")

\* -------------------------------------------- DELETE /users (StudentV2 router)
StudentV2UsersDeleteRun(in, f) ==
  LET lowerEmail == Trim(ToLowerCase(in.email))
      c1 == getUserByEmail(Ctx, lowerEmail, f.at = "lookup")
      c2 == IF c1.ret.out = "ok" THEN deleteUser(c1, c1.ret.uid, f.del) ELSE c1
      c3 == deleteOneByEmail(c2, "studentV2", lowerEmail, f.at = "remove")
  IN IF Missing(in.email) \/ in.type = ""
       THEN Reply(Ctx, 400, "Email and type (staff/student) are required")
     ELSE IF in.type # "student"
       THEN Reply(Ctx, 400, "Type must be student for this endpoint")
     ELSE IF c1.ret.out # "ok" /\ ~IsUserNotFound(c1.ret.out)
       THEN Reply(c1, 500, "Failed to delete user")
     ELSE IF c3.ret.out # "ok" THEN Reply(c3, 500, "Failed to delete user")
     ELSE IF c3.ret.n = 0 THEN Reply(c3, 404, "Student not found in database")
     ELSE Reply(Found(c3, c3.ret.doc), 200, "deleted successfully")

\* -------------------------------------------- UserController.deleteUser
UserDeleteRun(in, f) ==
  LET c1 == IF in.id # 0 THEN findById(Ctx, "user", in.id)
            ELSE IF ~Missing(in.email)
              THEN findOneByEmail(Ctx, "user", ToLowerCase(in.email))
            ELSE Ctx
      d == c1.ret.doc
      c2 == IF d.extId # 0 THEN deleteUser(Found(c1, d), d.extId, f.del)
            ELSE Found(c1, d)
      c3 == findByIdAndDelete(c2, "user", d.oid, f.at = "remove")
  IN IF d = NoDoc THEN Reply(c1, 404, "User not found")
     ELSE IF c3.ret.out # "ok" THEN Reply(c3, 500, "Failed to delete user")
     ELSE Reply(c3, 200, "User deleted successfully")

\* ---------------------------------------------------------------- actions
NoReply ==
  [op |-> "", route |-> "", kind |-> "", in |-> NoInput, code |-> 0, msg |-> "",
   log |-> <<>>, uid |-> 0, found |-> NoDoc, again |-> FALSE, first |-> 0,
   batch |-> NoBatch, items |-> <<>>]

\* a request is handled start to finish; the client sends the next one
\* after it has read the response and the calls left unawaited have settled
Idle == batch = NoBatch /\ last = NoReply /\ pending = {}

Answer(op, route, kind, in, r, again, first) ==
  /\ ~r.over
  /\ idents' = r.ids
  /\ profiles' = r.profs
  /\ last' = [op |-> op, route |-> route, kind |-> kind, in |-> in,
              code |-> r.code, msg |-> r.msg, log |-> r.log, uid |-> r.uid,
              found |-> r.found, again |-> again, first |-> first,
              batch |-> NoBatch, items |-> <<>>]
  /\ UNCHANGED <<batch, pending, race, meetings>>

Commit(op, route, kind, in, r) == Answer(op, route, kind, in, r, FALSE, 0)

StaffCreate ==
  /\ Idle
  /\ \E x \in Cases(BasicInputs, BadBasicInputs, CreateFaults) :
       Commit("create", "POST /api/staff/staff", "staff", x[1], StaffCreateRun(x[1], x[2]))

StudentCreate ==
  /\ Idle
  /\ \E x \in Cases(StudentInputs, BadStudentInputs, CreateFaults) :
       Commit("create", "POST /api/students/student", "student", x[1], StudentCreateRun(x[1], x[2]))

StudentV2Create ==
  /\ Idle
  /\ \E x \in Cases(BasicInputs, BadBasicInputs, CreateFaults) :
       Commit("create", "POST /student", "studentV2", x[1], StudentV2CreateRun(x[1], x[2]))

UserCreate ==
  /\ Idle
  /\ \E x \in Cases(BasicInputs, BadBasicInputs, CreateFaults) :
       Commit("create", "POST /user", "user", x[1], UserCreateRun(x[1], x[2]))

Oids == 1..MaxOid
Uids == 1..MaxUid

StaffDeleteById ==
  /\ Idle
  /\ \E n \in Uids, f \in DeleteFaults :
       Commit("delete", "DELETE /api/staff/:id", "staff", ByUid(n),
              StaffDeleteByIdRun(ByUid(n), f))

UsersDelete ==
  /\ Idle
  /\ \E e \in Emails, t \in {"staff", "student"}, f \in DeleteFaults :
       Commit("delete", "DELETE /api/staff/users", TypeModel(t), ByEmail(e, t),
              UsersDeleteRun(ByEmail(e, t), f))

StudentDelete ==
  /\ Idle
  /\ \E n \in Oids, f \in DeleteFaults :
       Commit("delete", "DELETE /api/students/student/:id", "student", ById(n),
              StudentDeleteRun(ById(n), f))

StudentV2Delete ==
  /\ Idle
  /\ \E in \in {ById(n) : n \in Oids} \cup {ByUid(n) : n \in Uids},
        f \in DeleteFaults :
       Commit("delete", "DELETE /:id", "studentV2", in, StudentV2DeleteRun(in, f))

StudentV2UsersDelete ==
  /\ Idle
  /\ \E e \in Emails, f \in DeleteFaults :
       Commit("delete", "DELETE /users", "studentV2", ByEmail(e, "student"),
              StudentV2UsersDeleteRun(ByEmail(e, "student"), f))

UserDelete ==
  /\ Idle
  /\ \E in \in {ById(n) : n \in Oids} \cup {ByEmail(e, "") : e \in Emails},
        f \in DeleteFaults :
       Commit("delete", "DELETE /:id (users)", "user", in, UserDeleteRun(in, f))

DeleteRun(route, in, f) ==
  CASE route = "DELETE /api/staff/:id" -> StaffDeleteByIdRun(in, f)
    [] route = "DELETE /api/staff/users" -> UsersDeleteRun(in, f)
    [] route = "DELETE /api/students/student/:id" -> StudentDeleteRun(in, f)
    [] route = "DELETE /:id" -> StudentV2DeleteRun(in, f)
    [] route = "DELETE /users" -> StudentV2UsersDeleteRun(in, f)
    [] route = "DELETE /:id (users)" -> UserDeleteRun(in, f)

\* the client repeats the delete request that has just succeeded
DeleteAgain ==
  /\ last.op = "delete"
  /\ last.code = 200
  /\ ~last.again
  /\ batch = NoBatch
  /\ pending = {}
  /\ \E f \in DeleteFaults :
       Answer("delete", last.route, last.kind, last.in,
              DeleteRun(last.route, last.in, f), TRUE, last.code)

\* one user of the list is processed; the first one opens the request
InLoop(route) ==
  /\ last = NoReply
  /\ pending = {}
  /\ batch = NoBatch \/ (batch.op = route /\ Len(batch.inputs) < MaxBatch)

BulkStep(route, type, in, r) ==
  /\ batch = NoBatch \/ batch.type = type
  /\ ~r.over
  /\ idents' = r.ids
  /\ profiles' = r.profs
  /\ batch' = [op |-> route, type |-> type,
               inputs |-> Append(batch.inputs, in),
               results |-> Append(batch.results,
                                  [email |-> r.rep, success |-> r.code = 1]),
               created |-> IF r.made # 0 THEN Append(batch.created, r.made)
                           ELSE batch.created,
               accounts |-> IF r.acct # 0 THEN batch.accounts \cup {r.acct}
                            ELSE batch.accounts,
               inserted |-> IF r.code = 1 THEN batch.inserted \cup {r.ret.doc}
                            ELSE batch.inserted,
               calls |-> Append(batch.calls, Len(r.log))]
  /\ UNCHANGED <<race, meetings>>
  /\ UNCHANGED <<last, pending>>

\* the loop is over: clean-up and response
BulkEnd(route, kind, r, issued) ==
  /\ batch.op = route
  /\ idents' = r.ids
  /\ profiles' = r.profs
  /\ last' = [op |-> "bulk", route |-> route, kind |-> kind, in |-> NoInput,
              code |-> r.code, msg |-> r.msg, log |-> r.log, uid |-> 0,
              found |-> NoDoc, again |-> FALSE, first |-> 0, batch |-> batch,
              items |-> r.items]
  /\ batch' = NoBatch
  /\ pending' = pending \cup issued
  /\ UNCHANGED <<race, meetings>>

Range(q) == {q[i] : i \in 1..Len(q)}

StaffBulkItem ==
  /\ InLoop("POST /api/staff/bulk-users")
  /\ \E x \in Cases(BulkBasicInputs, BadBulkBasicInputs, BulkFaults),
        t \in {"staff", "student"} :
       BulkStep("POST /api/staff/bulk-users", t, x[1],
                StaffBulkItemRun(x[1], t, x[2]))

StaffBulkFinish ==
  BulkEnd("POST /api/staff/bulk-users", TypeModel(batch.type),
          StaffBulkFinishRun(batch),
          IF CleansUp(batch) THEN Range(batch.created) ELSE {})

StudentBulkItem ==
  /\ InLoop("POST /api/students/bulk-users")
  /\ \E x \in Cases(BulkStudentInputs, BadBulkStudentInputs, BulkFaults) :
       BulkStep("POST /api/students/bulk-users", "student", x[1],
                StudentBulkItemRun(x[1], x[2]))

StudentBulkFinish ==
  \E failing \in SUBSET Range(batch.created) :
    BulkEnd("POST /api/students/bulk-users", "student",
            StudentBulkFinishRun(batch, failing), {})

StudentV2BulkItem ==
  /\ InLoop("POST /bulk-users")
  /\ \E x \in Cases(BulkBasicInputs, BadBulkBasicInputs, BulkFaults) :
       BulkStep("POST /bulk-users", "student", x[1],
                StudentV2BulkItemRun(x[1], x[2]))

StudentV2BulkFinish ==
  \E failing \in SUBSET Range(batch.created) :
    BulkEnd("POST /bulk-users", "studentV2",
            StudentBulkFinishRun(batch, failing), {})

UserBulkItem ==
  /\ InLoop("POST /bulk-users (users)")
  /\ \E x \in Cases({[i EXCEPT !.type = "staff"] : i \in BulkBasicInputs},
                    {[i EXCEPT !.type = "staff"] : i \in BadBulkBasicInputs},
                    BulkFaults \cup {[at |-> "claims", del |-> FALSE]}) :
       BulkStep("POST /bulk-users (users)", "user", x[1],
                UserBulkItemRun(x[1], x[2]))

UserBulkFinish ==
  \E failing \in SUBSET Range(batch.created) :
    BulkEnd("POST /bulk-users (users)", "user",
            UserBulkFinishRun(batch, failing), {})

\* a deleteUser that was issued without await completes, or fails
CompleteDelete ==
  \E u \in pending, fail \in BOOLEAN :
    /\ idents' = IF fail THEN idents ELSE {a \in idents : a.uid # u}
    /\ pending' = pending \ {u}
    /\ UNCHANGED <<profiles, last, batch, race, meetings>>

\* the client reads the response
Receive ==
  /\ last # NoReply
  /\ last' = NoReply
  /\ UNCHANGED <<idents, profiles, batch, pending, race, meetings>>

Init ==
  /\ idents = {}
  /\ profiles = [k \in Kinds |-> {}]
  /\ last = NoReply
  /\ batch = NoBatch
  /\ pending = {}
  /\ race = NoRace
  /\ meetings = {}

Next ==
  \/ StaffCreate
  \/ StudentCreate
  \/ StudentV2Create
  \/ UserCreate
  \/ StaffDeleteById
  \/ UsersDelete
  \/ StudentDelete
  \/ StudentV2Delete
  \/ StudentV2UsersDelete
  \/ UserDelete
  \/ DeleteAgain
  \/ StaffBulkItem
  \/ StaffBulkFinish
  \/ StudentBulkItem
  \/ StudentBulkFinish
  \/ StudentV2BulkItem
  \/ StudentV2BulkFinish
  \/ UserBulkItem
  \/ UserBulkFinish
  \/ CompleteDelete
  \/ Receive

Spec == Init /\ [][Next]_vars

\* ------------------------------------------------------ update: the calls
\* admin.auth().updateUser(uid, { email, password, displayName }); email and
\* password are <<>> when the property is not passed
updateUser(c, uid, email, password, fail) ==
  LET out == IF fail THEN "auth/internal-error"
             ELSE IF ~\E a \in c.ids : a.uid = uid THEN "auth/user-not-found"
             ELSE IF email # <<>> /\ ~EmailRegexTest(email) THEN "auth/invalid-email"
             ELSE IF password # <<>> /\ Len(password) < 6
               THEN "auth/invalid-password"
             ELSE IF email # <<>>
                     /\ \E a \in c.ids : a.uid # uid /\ a.email = ToLowerCase(email)
               THEN "auth/email-already-exists"
             ELSE "ok"
  IN IF out = "ok"
       THEN Returns([LogCall(c, "updateUser", uid, email, "ok") EXCEPT
                       !.ids = {IF a.uid = uid /\ email # <<>>
                                  THEN [a EXCEPT !.email = ToLowerCase(email)]
                                  ELSE a : a \in @}],
                    "ok", uid, NoDoc, 0)
       ELSE Returns(LogCall(c, "updateUser", uid, email, out), out, uid, NoDoc, 0)

\* { $set: ... } applied to a document: <<>> leaves the field as it is
SetFields(d, set) ==
  [d EXCEPT !.email = IF set.email # <<>> THEN set.email ELSE @,
            !.regNo = IF set.regNo # <<>> THEN set.regNo ELSE @]

\* the write of document d as nd: the unique indexes are checked against
\* the other documents of the collection
Write(c, kind, call, d, nd, fail) ==
  LET others == c.profs[kind] \ {d}
      out == IF fail THEN "error"
             ELSE IF d = NoDoc THEN "ok"
             ELSE IF EmailIndexed(others, nd) THEN "E11000 email"
             ELSE IF RegNoIndexed(others, nd) THEN "E11000 regNo"
             ELSE "ok"
  IN IF out = "ok" /\ d # NoDoc
       THEN Returns([LogCall(c, call, d.extId, nd.email, "ok") EXCEPT
                       !.profs[kind] = others \cup {nd}],
                    "ok", 0, nd, 1)
       ELSE Returns(LogCall(c, call, d.extId, nd.email, out), out, 0, NoDoc, 0)

\* Model.updateOne({ email }, { $set: set })
updateOne(c, kind, email, set, fail) ==
  LET d == Pick({x \in c.profs[kind] : x.email = email})
  IN Write(c, kind, "updateOne", d, SetFields(d, set), fail)

\* Model.findByIdAndUpdate(_id, { $set: set })
findByIdAndUpdate(c, kind, oid, set, fail) ==
  LET d == Pick({x \in c.profs[kind] : x.oid = oid})
  IN Write(c, kind, "findByIdAndUpdate", d, SetFields(d, set), fail)

\* ----------------------------------------------------- update: the inputs
\* oldEmail (email), newEmail, newPassword (password), name, regNo, status
UpdateInput(old, new, pw, name, regNo, status) ==
  [NoInput EXCEPT !.email = old, !.newEmail = new, !.password = pw,
                  !.name = name, !.regNo = regNo, !.status = status]

NewEmails == {<<>>, EmailA, EmailAUp, EmailB, EmailBad, EmailSp}

UpdateInputs ==
  {UpdateInput(old, new, <<>>, <<>>, <<>>, "") :
     old \in {EmailA, EmailAUp, EmailB}, new \in NewEmails}
    \cup {UpdateInput(EmailA, <<>>, pw, <<>>, <<>>, "") : pw \in {PwOk, PwShort}}
    \cup {UpdateInput(EmailA, EmailB, PwShort, <<>>, <<>>, ""),
          UpdateInput(EmailA, <<>>, <<>>, SomeName, <<>>, ""),
          UpdateInput(<<>>, EmailB, <<>>, <<>>, <<>>, ""),
          UpdateInput(EmailA, <<>>, <<>>, <<>>, <<>>, "")}

StudentUpdateInputs ==
  UpdateInputs
    \cup {UpdateInput(old, <<>>, <<>>, <<>>, r, "") :
            old \in {EmailA, EmailB}, r \in {RegLo, RegX, RegBad}}
    \cup {UpdateInput(EmailA, <<>>, <<>>, <<>>, <<>>, st) : st \in {"Hold", "Left"}}

\* which external call of an update fails for a reason outside the model
UpdateFaults ==
  {[at |-> a, del |-> FALSE] : a \in {"none", "lookup", "taken", "update", "write"}}

\* ------------------------------------------- PUT /api/staff/users (update)
\* variant: the error is swallowed and the update reported as done
UpdateCatchSilent(c, err) == Reply(c, 200, "updated successfully")

\* catch (err) of the update handlers
UpdateCatch(c, err) ==
  IF err = "auth/email-already-exists"
    THEN Reply(c, 400, "New email is already in use")
    ELSE Reply(c, 500, "Failed to update user")

\* the tail shared by the PUT /users handlers and PUT /update-user, after the
\* validation: lowerNew is the address looked up and compared, fbEmail the
\* one passed to updateUser, set the fields of $set
UpdateBoth(c, kind, in, lowerOld, lowerNew, fbEmail, fbAny, set, mongoAny, f) ==
  LET c1 == getUserByEmail(c, lowerOld, f.at = "lookup")
      check == ~Missing(in.newEmail) /\ lowerNew # lowerOld
      c2 == IF check THEN getUserByEmail(c1, lowerNew, f.at = "taken") ELSE c1
      c3 == IF fbAny
              THEN updateUser([c2 EXCEPT !.uid = c1.ret.uid], c1.ret.uid,
                              fbEmail, in.password, f.at = "update")
              ELSE [c2 EXCEPT !.uid = c1.ret.uid]
      c4 == IF mongoAny THEN updateOne(c3, kind, lowerOld, set, f.at = "write")
            ELSE c3
  IN IF IsUserNotFound(c1.ret.out)
       THEN Reply(c1, 404, "User not found in Firebase")
     ELSE IF c1.ret.out # "ok" THEN UpdateCatch(c1, c1.ret.out)
     ELSE IF check /\ c2.ret.out = "ok"
       THEN Reply(c2, 400, "New email is already in use")
     ELSE IF check /\ ~IsUserNotFound(c2.ret.out)
       THEN UpdateCatch(c2, c2.ret.out)
     ELSE IF fbAny /\ c3.ret.out # "ok" THEN UpdateCatch(c3, c3.ret.out)
     ELSE IF mongoAny /\ c4.ret.out # "ok" THEN UpdateCatch(c4, c4.ret.out)
     ELSE Reply(c4, 200, "updated successfully")

NoSet == [email |-> <<>>, regNo |-> <<>>]

StaffUsersUpdateRun(in, f) ==
  IF Missing(in.email) \/ in.type \notin {"staff", "student"}
    THEN Reply(Ctx, 400, "oldEmail and valid type (staff|student) required")
  ELSE IF Missing(in.newEmail) /\ Missing(in.password) /\ Missing(in.name)
            /\ Missing(in.group)
    THEN Reply(Ctx, 400, "At least one field to update must be provided")
  ELSE IF ~Missing(in.newEmail) /\ ~EmailRegexTest(in.newEmail)
    THEN Reply(Ctx, 400, "Invalid new email format")
  ELSE IF ~Missing(in.password) /\ Len(in.password) < 6
    THEN Reply(Ctx, 400, "New password must be at least 6 characters")
  ELSE
    LET lowerOld == Trim(ToLowerCase(in.email))
        lowerNew == Trim(ToLowerCase(in.newEmail))
    IN UpdateBoth(Ctx, TypeModel(in.type), in, lowerOld, lowerNew, lowerNew,
                  ~Missing(in.newEmail) \/ ~Missing(in.password)
                    \/ ~Missing(in.name),
                  [NoSet EXCEPT !.email = lowerNew],
                  ~Missing(in.newEmail) \/ ~Missing(in.name)
                    \/ ~Missing(in.group), f)

\* ---------------------------------- PUT /api/students/update-user (update)
StudentUpdateRun(in, f) ==
  LET lowerOldEmail == Trim(ToLowerCase(in.email))
      c1 == findOneByEmail(Ctx, "student", lowerOldEmail)
  IN IF Missing(in.email) THEN Reply(Ctx, 400, "Old email is required")
     ELSE IF c1.ret.doc = NoDoc
       THEN Reply(c1, 404, "Student not found in database")
     ELSE IF ~Missing(in.password) /\ Len(in.password) < 6
       THEN Reply(c1, 400, "New password must be at least 6 characters")
     ELSE IF in.status # "" /\ in.status # "Active" /\ in.status # "Hold"
       THEN Reply(c1, 400, "Status must be either Active or Hold")
     ELSE UpdateBoth([c1 EXCEPT !.found = c1.ret.doc], "student", in,
                     lowerOldEmail, ToLowerCase(in.newEmail),
                     ToLowerCase(in.newEmail),
                     ~Missing(in.newEmail) \/ ~Missing(in.password)
                       \/ ~Missing(in.name),
                     [email |-> Trim(ToLowerCase(in.newEmail)),
                      regNo |-> Trim(ToUpperCase(in.regNo))],
                     TRUE, f)

\* ------------------------------------- PUT /:id (StudentV2 router, update)
\* the body's email is in.newEmail; an error of the Firebase calls is logged
\* and the document is written all the same
StudentV2UpdateByIdRun(in, f) ==
  LET c1 == findOneByExtId(Ctx, "studentV2", IF in.ns = "uid" THEN in.id ELSE 0)
      c2 == IF c1.ret.doc = NoDoc
              THEN findById(c1, "studentV2", IF in.ns = "oid" THEN in.id ELSE 0)
              ELSE c1
      d == c2.ret.doc
      email == ToLowerCase(in.newEmail)
      changed == ~Missing(in.newEmail) /\ d.email # email
      c3 == IF changed THEN getUserByEmail(Found(c2, d), d.email, f.at = "lookup")
            ELSE Found(c2, d)
      c4 == IF changed /\ c3.ret.out = "ok"
              THEN updateUser([c3 EXCEPT !.uid = c3.ret.uid], c3.ret.uid, email,
                              <<>>, f.at = "update")
              ELSE c3
      c5 == findByIdAndUpdate(c4, "studentV2", d.oid,
                              [NoSet EXCEPT !.email = email], f.at = "write")
  IN IF d = NoDoc THEN Reply(c2, 404, "Student not found")
     ELSE IF c5.ret.out # "ok" THEN Reply(c5, 500, "Failed to update student")
     ELSE Reply(c5, 200, "Student updated successfully")

\* ----------------------------------- PUT /users (StudentV2 router, update)
StudentV2UsersUpdateRun(in, f) ==
  IF Missing(in.email) \/ in.type = ""
    THEN Reply(Ctx, 400, "oldEmail and type (staff/student) are required")
  ELSE IF Missing(in.newEmail) /\ Missing(in.password) /\ Missing(in.name)
            /\ Missing(in.group)
    THEN Reply(Ctx, 400, "At least one field to update must be provided")
  ELSE IF in.type # "student"
    THEN Reply(Ctx, 400, "Type must be student for this endpoint")
  ELSE IF ~Missing(in.newEmail) /\ ~EmailRegexTest(in.newEmail)
    THEN Reply(Ctx, 400, "Invalid new email format")
  ELSE IF ~Missing(in.password) /\ Len(in.password) < 6
    THEN Reply(Ctx, 400, "New password must be at least 6 characters")
  ELSE
    UpdateBoth(Ctx, "studentV2", in, Trim(ToLowerCase(in.email)),
               ToLowerCase(in.newEmail), ToLowerCase(in.newEmail),
               ~Missing(in.newEmail) \/ ~Missing(in.password)
                 \/ ~Missing(in.name),
               [NoSet EXCEPT !.email = Trim(ToLowerCase(in.newEmail))],
               ~Missing(in.newEmail) \/ ~Missing(in.name)
                 \/ ~Missing(in.group), f)

\* ------------------------------------------- PUT /api/staff/:id (update)
\* the body's email is in.newEmail; no Firebase call is made
StaffUpdateByIdRun(in, f) ==
  LET c1 == findOneByExtId(Ctx, "staff", in.id)
      d == c1.ret.doc
      c2 == Write(Found(c1, d), "staff", "save", d,
                  SetFields(d, [NoSet EXCEPT !.email = ToLowerCase(in.newEmail)]),
                  f.at = "write")
  IN IF d = NoDoc THEN Reply(c1, 404, "Staff not found")
     ELSE IF c2.ret.out # "ok" THEN Reply(c2, 500, "Failed to update staff")
     ELSE Reply(c2, 200, "Staff updated successfully")

\* ------------------------------------------- UserController.updateUser
\* the body's email is in.newEmail; the profile is saved first, the display
\* name is then passed to Firebase and an error there is ignored
UserUpdateRun(in, f) ==
  LET c1 == findById(Ctx, "user", in.id)
      d == c1.ret.doc
      c2 == Write(Found(c1, d), "user", "save", d, d, f.at = "write")
      c3 == IF ~Missing(in.name) /\ d.extId # 0
              THEN updateUser([c2 EXCEPT !.uid = d.extId], d.extId, <<>>, <<>>,
                              f.at = "update")
              ELSE c2
  IN IF d = NoDoc THEN Reply(c1, 404, "User not found")
     ELSE IF ~Missing(in.newEmail) /\ in.newEmail # d.email
       THEN Reply(Found(c1, d), 400, "Cannot change email")
     ELSE IF c2.ret.out # "ok" THEN Reply(c2, 500, "Failed to update user")
     ELSE Reply(c3, 200, "User updated successfully")

\* ---------------------------------------------------- update: the requests
TypedInputs(ins, types) == {[in EXCEPT !.type = t] : in \in ins, t \in types}

StaffUsersUpdate ==
  /\ Idle
  /\ \E in \in TypedInputs(UpdateInputs, {"staff", "student"})
               \cup TypedInputs({UpdateInput(EmailA, EmailB, <<>>, <<>>, <<>>, "")},
                                {"", "admin"}),
        f \in UpdateFaults :
       Commit("update", "PUT /api/staff/users", TypeModel(in.type), in,
              StaffUsersUpdateRun(in, f))

StudentUpdate ==
  /\ Idle
  /\ \E in \in StudentUpdateInputs, f \in UpdateFaults :
       Commit("update", "PUT /api/students/update-user", "student", in,
              StudentUpdateRun(in, f))

ByIdInputs ==
  {[x EXCEPT !.newEmail = new, !.name = name] :
     x \in {ById(n) : n \in Oids} \cup {ByUid(n) : n \in Uids},
     new \in NewEmails, name \in {<<>>, SomeName}}

StudentV2UpdateById ==
  /\ Idle
  /\ \E in \in ByIdInputs, f \in UpdateFaults :
       Commit("update", "PUT /:id", "studentV2", in, StudentV2UpdateByIdRun(in, f))

StaffUpdateById ==
  /\ Idle
  /\ \E in \in {x \in ByIdInputs : x.ns = "uid"},
        f \in {g \in UpdateFaults : g.at \in {"none", "write"}} :
       Commit("update", "PUT /api/staff/:id", "staff", in, StaffUpdateByIdRun(in, f))

StudentV2UsersUpdate ==
  /\ Idle
  /\ \E in \in TypedInputs(UpdateInputs, {"student"})
               \cup TypedInputs({UpdateInput(EmailA, EmailB, <<>>, <<>>, <<>>, "")},
                                {"", "staff"}),
        f \in UpdateFaults :
       Commit("update", "PUT /users", "studentV2", in,
              StudentV2UsersUpdateRun(in, f))

UserUpdate ==
  /\ Idle
  /\ \E in \in {x \in ByIdInputs : x.ns = "oid"}, f \in UpdateFaults :
       Commit("update", "PUT /:id (users)", "user", in, UserUpdateRun(in, f))

\* the server with the create and update routes
UpdateNext ==
  \/ StaffCreate
  \/ StudentCreate
  \/ StudentV2Create
  \/ UserCreate
  \/ StaffUsersUpdate
  \/ StaffUpdateById
  \/ StudentUpdate
  \/ StudentV2UpdateById
  \/ StudentV2UsersUpdate
  \/ UserUpdate
  \/ Receive

UpdateSpec == Init /\ [][UpdateNext]_vars

\* the student router alone: create, bulk create and update
StudentNext ==
  \/ StudentCreate
  \/ StudentBulkItem
  \/ StudentBulkFinish
  \/ StudentUpdate
  \/ Receive

StudentSpec == Init /\ [][StudentNext]_vars

\* ------------------------- two POST /staff or two POST /student at once
\* Each await of the handler is one step; the two requests interleave at
\* the awaits. No call fails for a reason outside the model.
RaceKinds == {"staff", "student"}

RaceInputs(kind) == IF kind = "staff" THEN BasicInputs ELSE StudentInputs

Start(in) == [NoProc EXCEPT !.in = in, !.pc = "findOne"]

RaceInit ==
  /\ idents = {}
  /\ profiles = [k \in Kinds |-> {}]
  /\ last = NoReply
  /\ batch = NoBatch
  /\ pending = {}
  /\ meetings = {}
  /\ race \in {[kind |-> k, procs |-> <<Start(i1), Start(i2)>>] :
                 k \in RaceKinds, i1 \in BasicInputs \cup StudentInputs,
                 i2 \in BasicInputs \cup StudentInputs}
  /\ \A p \in 1..2 : race.procs[p].in \in RaceInputs(race.kind)
  /\ \/ Trim(ToLowerCase(race.procs[1].in.email))
          = Trim(ToLowerCase(race.procs[2].in.email))
     \/ /\ race.kind = "student"
        /\ UpperRegNo(race.procs[1].in.regNo) = UpperRegNo(race.procs[2].in.regNo)

At(p, pc) == race.kind # "" /\ race.procs[p].pc = pc

\* the call returned c and the request goes on as q
Resume(p, c, q) ==
  /\ ~c.over
  /\ idents' = c.ids
  /\ profiles' = c.profs
  /\ race' = [race EXCEPT !.procs[p] = q]
  /\ UNCHANGED <<last, batch, pending, meetings>>

Done(q, code) == [q EXCEPT !.pc = "done", !.code = code]

RaceLowerEmail(p) == Trim(ToLowerCase(race.procs[p].in.email))

\* Staff.findOne({ email: lowerEmail }) / Student.findOne({ email: lowerEmail })
RaceFindOne ==
  \E p \in 1..2 :
    /\ At(p, "findOne")
    /\ LET q == race.procs[p]
           c == findOneByEmail(Ctx, race.kind, RaceLowerEmail(p))
       IN Resume(p, c,
                 IF c.ret.doc # NoDoc THEN Done(q, 400)
                 ELSE IF race.kind = "student" THEN [q EXCEPT !.pc = "regNo"]
                 ELSE [q EXCEPT !.pc = "lookup"])

\* Student.findOne({ regNo: upperRegNo })
RaceFindRegNo ==
  \E p \in 1..2 :
    /\ At(p, "regNo")
    /\ LET q == race.procs[p]
           c == findOneByRegNo(Ctx, race.kind, UpperRegNo(q.in.regNo))
       IN Resume(p, c, IF c.ret.doc # NoDoc THEN Done(q, 400)
                       ELSE [q EXCEPT !.pc = "lookup"])

\* admin.auth().getUserByEmail(lowerEmail): the staff router keeps the
\* account found as firebaseUser, the student router answers 400
RaceLookup ==
  \E p \in 1..2 :
    /\ At(p, "lookup")
    /\ LET q == race.procs[p]
           c == getUserByEmail(Ctx, RaceLowerEmail(p), FALSE)
       IN Resume(p, c,
                 IF c.ret.out = "ok"
                   THEN IF race.kind = "staff"
                          THEN [q EXCEPT !.uid = c.ret.uid, !.pc = "save"]
                          ELSE Done(q, 400)
                 ELSE [q EXCEPT !.pc = "create"])

\* admin.auth().createUser({ email: lowerEmail, ... })
RaceCreateUser ==
  \E p \in 1..2 :
    /\ At(p, "create")
    /\ LET q == race.procs[p]
           c == createUser(Ctx, RaceLowerEmail(p), "none")
       IN Resume(p, c,
                 IF c.ret.out = "ok"
                   THEN [q EXCEPT !.uid = c.ret.uid, !.made = c.ret.uid,
                                  !.pc = "save"]
                 ELSE Done(q, 400))

\* staff.save() / student.save(); an error goes to the catch block
RaceSave ==
  \E p \in 1..2 :
    /\ At(p, "save")
    /\ LET q == race.procs[p]
           doc == IF race.kind = "staff" THEN StaffDoc(q.uid, RaceLowerEmail(p))
                  ELSE StudentDoc(q.uid, RaceLowerEmail(p), UpperRegNo(q.in.regNo))
           c == save(Ctx, race.kind, doc, FALSE)
       IN Resume(p, c, IF c.ret.out = "ok" THEN Done(q, 201)
                       ELSE [q EXCEPT !.pc = "catch", !.err = c.ret.out])

\* variant: the catch block answers without deleting the account
RaceCatchNoCleanup ==
  \E p \in 1..2 :
    /\ At(p, "catch")
    /\ Resume(p, Ctx, Done(race.procs[p],
                           IF IsDuplicateKey(race.procs[p].err) THEN 400 ELSE 500))

\* catch (err): if (firebaseUser) deleteUser(firebaseUser.uid), then the answer
RaceCatch ==
  \E p \in 1..2 :
    /\ At(p, "catch")
    /\ LET q == race.procs[p]
           c == IF q.uid # 0 THEN deleteUser(Ctx, q.uid, FALSE) ELSE Ctx
           code == IF IsDuplicateKey(q.err) THEN 400 ELSE 500
       IN Resume(p, c, [Done(q, code) EXCEPT
                          !.dels = IF q.uid # 0 THEN @ \cup {q.uid} ELSE @])

RaceNext ==
  \/ RaceFindOne
  \/ RaceFindRegNo
  \/ RaceLookup
  \/ RaceCreateUser
  \/ RaceSave
  \/ RaceCatch

RaceSpec == RaceInit /\ [][RaceNext]_vars

\* ------------------------------------------------- meetingController.js
MaxMeeting == 2
MaxAttendees == 2

Statuses == {"scheduled", "live", "ended", "cancelled"}

NoMeeting == [id |-> 0, status |-> "", attendees |-> <<>>, totalAttendees |-> 0]

\* Meeting.findById(meetingId)
FindMeeting(id) ==
  IF \E m \in meetings : m.id = id THEN CHOOSE m \in meetings : m.id = id
  ELSE NoMeeting

FreshMeetingId ==
  CHOOSE n \in 1..(MaxMeeting + 1) :
    /\ (n = MaxMeeting + 1 \/ ~\E m \in meetings : m.id = n)
    /\ \A k \in 1..(n - 1) : \E m \in meetings : m.id = k

\* meeting.attendees.filter(a => a.status === 'joined').length
JoinedCount(attendees) ==
  Cardinality({i \in 1..Len(attendees) : attendees[i].status = "joined"})

LinkOk == <<"h", "t", "t", "p", ":", "/", "/", "m", ".", "c">>
LinkBad == <<"m", ".", "c">>

IsSpace(ch) == ch = " "

\* /^(https?:\/\/[^\s$.?#].[^\s]*)$/.test(meetingLink)
UrlRegexTest(link) ==
  \E n \in {7, 8} :
    /\ Len(link) >= n + 2
    /\ SubSeq(link, 1, n) = IF n = 7 THEN <<"h", "t", "t", "p", ":", "/", "/">>
                            ELSE <<"h", "t", "t", "p", "s", ":", "/", "/">>
    /\ ~IsSpace(link[n + 1]) /\ link[n + 1] \notin {"$", ".", "?", "#"}
    /\ \A i \in (n + 3)..Len(link) : ~IsSpace(link[i])

\* the response of a meeting handler and the collection it leaves
MeetingReply(code, msg, ms) == [code |-> code, msg |-> msg, ms |-> ms]

Replace(m, nm) == (meetings \ {m}) \cup {nm}

\* exports.createMeeting: group stands for classId / subjectId
CreateMeetingRun(title, group, link, fail) ==
  IF Missing(group) \/ Missing(title) \/ Missing(link)
    THEN MeetingReply(400, "Class/Subject ID, title, meeting type, and meeting link are required", meetings)
  ELSE IF ~UrlRegexTest(link)
    THEN MeetingReply(400, "Invalid meeting link format", meetings)
  ELSE IF fail THEN MeetingReply(400, "Meeting validation failed", meetings)
  ELSE MeetingReply(201, "Meeting created successfully",
                    meetings \cup {[NoMeeting EXCEPT !.id = FreshMeetingId,
                                                     !.status = "scheduled"]})

\* exports.startMeeting
StartMeetingRun(id, fail) ==
  LET meeting == FindMeeting(id)
  IN IF meeting = NoMeeting THEN MeetingReply(404, "Meeting not found", meetings)
     ELSE IF meeting.status = "live"
       THEN MeetingReply(400, "Meeting is already live", meetings)
     ELSE IF meeting.status \in {"ended", "cancelled"}
       THEN MeetingReply(400, "Cannot start a meeting that has ended or been cancelled", meetings)
     ELSE IF fail THEN MeetingReply(500, "Failed to start meeting", meetings)
     ELSE MeetingReply(200, "Meeting started successfully",
                       Replace(meeting, [meeting EXCEPT !.status = "live"]))

\* existingAttendee: the first attendee with that studentEmail, 0 if none
ExistingAttendee(attendees, email) ==
  IF \E i \in 1..Len(attendees) : attendees[i].email = email
    THEN CHOOSE i \in 1..Len(attendees) :
           /\ attendees[i].email = email
           /\ \A j \in 1..(i - 1) : attendees[j].email # email
    ELSE 0

\* exports.joinMeeting
JoinMeetingRun(id, email, fail) ==
  LET meeting == FindMeeting(id)
      i == ExistingAttendee(meeting.attendees, email)
      attendees ==
        IF i # 0
          THEN [meeting.attendees EXCEPT
                  ![i].status = IF @ = "left" THEN "joined" ELSE @]
          ELSE Append(meeting.attendees, [email |-> email, status |-> "joined"])
  IN IF meeting = NoMeeting THEN MeetingReply(404, "Meeting not found", meetings)
     ELSE IF meeting.status # "live"
       THEN MeetingReply(400, "Meeting is not live. Please wait for the staff to start the meeting.", meetings)
     ELSE IF fail THEN MeetingReply(500, "Failed to join meeting", meetings)
     ELSE MeetingReply(200, "Joined meeting successfully",
                       Replace(meeting,
                               [meeting EXCEPT
                                  !.attendees = attendees,
                                  !.totalAttendees = JoinedCount(attendees)]))

\* { ...attendee, leaveTime, status: 'left', duration }: the spread of a
\* mongoose subdocument may or may not carry its fields over (keeps)
LeaveAll(attendees, keeps) ==
  [i \in 1..Len(attendees) |->
     IF attendees[i].status = "joined"
       THEN [email |-> IF keeps THEN attendees[i].email ELSE <<>>,
             status |-> "left"]
       ELSE attendees[i]]

\* exports.endMeeting
EndMeetingRun(id, keeps, fail) ==
  LET meeting == FindMeeting(id)
  IN IF meeting = NoMeeting THEN MeetingReply(404, "Meeting not found", meetings)
     ELSE IF meeting.status # "live"
       THEN MeetingReply(400, "Meeting is not live", meetings)
     ELSE IF fail THEN MeetingReply(500, "Failed to end meeting", meetings)
     ELSE MeetingReply(200, "Meeting ended successfully",
                       Replace(meeting,
                               [meeting EXCEPT
                                  !.status = "ended",
                                  !.attendees = LeaveAll(@, keeps)]))

\* req.body of updateMeeting: "" and -1 stand for a key that is not sent
MeetingUpdates ==
  {[status |-> st, totalAttendees |-> n] :
     st \in Statuses \cup {"", "paused"}, n \in {-1, 0}}

\* exports.updateMeeting: every key but attendees is copied to the document;
\* save() rejects a status outside the enum
UpdateMeetingRun(id, updates, fail) ==
  LET meeting == FindMeeting(id)
  IN IF meeting = NoMeeting THEN MeetingReply(404, "Meeting not found", meetings)
     ELSE IF fail \/ updates.status \notin Statuses \cup {""}
       THEN MeetingReply(500, "Failed to update meeting", meetings)
     ELSE MeetingReply(200, "Meeting updated successfully",
                       Replace(meeting,
                               [meeting EXCEPT
                                  !.status = IF updates.status # ""
                                               THEN updates.status ELSE @,
                                  !.totalAttendees =
                                     IF updates.totalAttendees # -1
                                       THEN updates.totalAttendees ELSE @]))

\* the handler answers r; the attendee list stays within the bound
MeetingAnswer(op, id, email, r) ==
  /\ \A m \in r.ms : m.id <= MaxMeeting /\ Len(m.attendees) <= MaxAttendees
  /\ meetings' = r.ms
  /\ last' = [NoReply EXCEPT !.op = op, !.route = op, !.kind = "meeting",
                             !.in = [NoInput EXCEPT !.id = id, !.email = email],
                             !.code = r.code, !.msg = r.msg]
  /\ UNCHANGED <<idents, profiles, batch, pending, race>>

MeetingIds == 1..MaxMeeting

CreateMeeting ==
  /\ Idle
  /\ \E x \in {<<SomeName, SomeGroup, LinkOk>>, <<<<>>, SomeGroup, LinkOk>>,
               <<SomeName, SomeGroup, LinkBad>>},
        fail \in BOOLEAN :
       MeetingAnswer("createMeeting", 0, <<>>,
                     CreateMeetingRun(x[1], x[2], x[3], fail))

StartMeeting ==
  /\ Idle
  /\ \E id \in MeetingIds, fail \in BOOLEAN :
       MeetingAnswer("startMeeting", id, <<>>, StartMeetingRun(id, fail))

JoinMeeting ==
  /\ Idle
  /\ \E id \in MeetingIds, email \in {EmailA, EmailB}, fail \in BOOLEAN :
       MeetingAnswer("joinMeeting", id, email, JoinMeetingRun(id, email, fail))

EndMeeting ==
  /\ Idle
  /\ \E id \in MeetingIds, keeps \in BOOLEAN, fail \in BOOLEAN :
       MeetingAnswer("endMeeting", id, <<>>, EndMeetingRun(id, keeps, fail))

UpdateMeeting ==
  /\ Idle
  /\ \E id \in MeetingIds, updates \in MeetingUpdates, fail \in BOOLEAN :
       MeetingAnswer("updateMeeting", id, <<>>, UpdateMeetingRun(id, updates, fail))

MeetingNext ==
  \/ CreateMeeting
  \/ StartMeeting
  \/ JoinMeeting
  \/ EndMeeting
  \/ UpdateMeeting
  \/ Receive

MeetingSpec == Init /\ [][MeetingNext]_vars

\* the meeting routes without updateMeeting
AttendNext ==
  \/ CreateMeeting
  \/ StartMeeting
  \/ JoinMeeting
  \/ EndMeeting
  \/ Receive

AttendSpec == Init /\ [][AttendNext]_vars

\* ------------------------------------------------------------- properties
HasIdentity(uid) == \E a \in idents : a.uid = uid

AllProfiles == UNION {profiles[k] : k \in Kinds}

Normal(email) == Trim(ToLowerCase(email))

Calls(log, name) == {i \in 1..Len(log) : log[i].call = name}

\* no external call of the request failed for a reason outside the model
NoFailure(log) ==
  \A i \in 1..Len(log) : log[i].out \notin {"auth/internal-error", "error"}

\* C1 (I1): whenever a call has returned success, every profile row with
\* externalId X has an identity with key X in the Identity Directory.
C1_NoOrphanProfile ==
  (last # NoReply /\ last.code \in {200, 201}) =>
    \A d \in AllProfiles : HasIdentity(d.extId)

\* C2: when a single create returns, with success or with any error, and no
\* compensating deleteUser has failed, either the identity and the profile of
\* the email both exist or the call has left neither behind.
C2_CreateAtomic ==
  (last.op = "create"
     /\ last.code # 0
     /\ \A i \in Calls(last.log, "deleteUser") : last.log[i].out # "auth/internal-error")
  => LET e == Normal(last.in.email)
         made == {last.log[i].uid :
                    i \in {j \in Calls(last.log, "createUser") : last.log[j].out = "ok"}}
         saved == \E i \in Calls(last.log, "save") : last.log[i].out = "ok"
     IN \/ /\ \E a \in idents : a.email = e
           /\ \E d \in profiles[last.kind] : d.email = e
        \/ /\ \A u \in made : ~HasIdentity(u)
           /\ ~saved

C4_InsertCompensated ==
  last.op = "create" =>
    \A i \in Calls(last.log, "createUser") :
      (last.log[i].out = "ok"
         /\ \E j \in Calls(last.log, "save") : last.log[j].out # "ok")
      => \E k \in Calls(last.log, "deleteUser") :
           /\ last.log[k].uid = last.log[i].uid
           /\ last.log[k].out = "ok" =>
                ~\E a \in idents : a.email = Normal(last.in.email)

\* C5 (P5): a create for an email the Identity Directory already holds is
\* rejected with a conflict at the existence check: no createUser is issued
\* and no profile write is attempted.
C5_ExistingIdentityRejected ==
  (last.op = "create"
     /\ \E i \in 1..Len(last.log) :
          \/ last.log[i].call = "getUserByEmail" /\ last.log[i].out = "ok"
          \/ last.log[i].call = "createUser"
               /\ last.log[i].out = "auth/email-already-exists")
  => /\ last.code = 400
     /\ Calls(last.log, "createUser") = {}
     /\ Calls(last.log, "save") = {}

\* the request body passes the validation of the kind's POST /student
StudentValid(kind, in) ==
  /\ ~Missing(in.name) /\ ~Missing(in.group) /\ ~Missing(in.email)
  /\ ~Missing(in.password)
  /\ EmailRegexTest(in.email)
  /\ Len(in.password) >= 6
  /\ kind = "student" =>
       /\ ~Missing(in.regNo)
       /\ in.status \in {"Active", "Hold"}
       /\ RegNoRegexTest(in.regNo)

ConflictMessages ==
  {"Student email already exists in database",
   "Registration number already exists in database"}

\* C6 (P6): a valid student create whose lower-cased email, or whose
\* upper-cased registration number, is that of a student already stored is
\* answered with a conflict before any Identity Directory call, and changes
\* nothing.
C6_StudentDuplicateRejected ==
  [][(/\ last' # last
      /\ last'.op = "create"
      /\ last'.kind \in {"student", "studentV2"}
      /\ StudentValid(last'.kind, last'.in)
      /\ \E d \in profiles[last'.kind] :
           \/ d.email = ToLowerCase(last'.in.email)
           \/ last'.kind = "student" /\ d.regNo = ToUpperCase(last'.in.regNo))
     => /\ last'.code = 400
        /\ last'.msg \in ConflictMessages
        /\ \A i \in 1..Len(last'.log) : last'.log[i].call = "findOne"
        /\ idents' = idents
        /\ profiles' = profiles]_vars

C6_Witness ==
  /\ last.op = "create"
  /\ last.kind = "student"
  /\ last.code = 400
  /\ last.msg = "Registration number already exists in database"
  /\ last.in.regNo = RegLo
  /\ Len(last.log) = 2
  /\ \E d \in profiles["student"] :
       d.regNo = RegUp /\ d.email # Normal(last.in.email)

C8_IdentityFailureTolerated ==
  (last.op = "delete"
     /\ last.found # NoDoc
     /\ \E i \in Calls(last.log, "deleteUser") :
          last.log[i].out = "auth/internal-error")
  => /\ last.code = 200
     /\ last.found \notin profiles[last.kind]

\* the stored profiles a delete request addresses by its key
Addressed(in, kind) ==
  {d \in profiles[kind] :
     \/ in.ns = "oid" /\ d.oid = in.id
     \/ in.ns = "uid" /\ d.extId = in.id
     \/ in.ns = "" /\ d.email = in.email}

\* C9: a delete of a profile whose externalId has no identity left, none of
\* its external calls failing, returns success and removes the profile;
\* afterwards neither the profile nor the identity exists.
C9_OrphanProfileDeleted ==
  [][(last' # last /\ last'.op = "delete") =>
       \A d \in Addressed(last'.in, last'.kind) :
         (~HasIdentity(d.extId) /\ NoFailure(last'.log))
         => /\ last'.code = 200
            /\ d \notin profiles'[last'.kind]
            /\ ~\E a \in idents' : a.uid = d.extId]_vars

C9_Witness ==
  /\ last.op = "delete"
  /\ last.route = "DELETE /api/students/student/:id"
  /\ last.code = 200
  /\ last.found # NoDoc
  /\ last.found \notin profiles["student"]
  /\ \E i \in Calls(last.log, "deleteUser") :
       last.log[i].out = "auth/user-not-found"

\* C10 (P4): when a bulk create in which at least one item failed returns,
\* no clean-up deletion having failed, none of the accounts createUser made
\* during the request is left in the Identity Directory (an account whose
\* deletion has been issued and not yet settled is not counted).
C10_BatchCompensated ==
  (last.op = "bulk" /\ AnyFailed(last.batch.results) /\ NoFailure(last.log))
  => \A u \in last.batch.accounts \ pending : ~HasIdentity(u)

\* the e-mail address an outcome of a bulk request reports for an input
Reported(email) == IF Missing(email) THEN Unknown ELSE Normal(email)

\* C11: a bulk create answers with exactly one outcome per input, in input
\* order: outcome i carries the address of input i and whether it was
\* created (an item's failure never ends the loop).
C11_PerItemOutcomes ==
  last.op = "bulk" =>
    /\ Len(last.items) = Len(last.batch.inputs)
    /\ \A i \in 1..Len(last.batch.inputs) :
         /\ Reported(last.items[i].email) = Reported(last.batch.inputs[i].email)
         /\ last.items[i].success = last.batch.results[i].success

\* C12: when a bulk create has run its clean-up, every document saved
\* during the request is still in its collection when the response is sent
\* and its user is still reported with success: true.
C12_ProfilesKept ==
  (last.op = "bulk" /\ Calls(last.log, "deleteUser") # {}) =>
    \A d \in last.batch.inserted :
      /\ d \in profiles[last.kind]
      /\ \E i \in 1..Len(last.items) :
           last.items[i].success /\ Reported(last.items[i].email) = d.email

C12_Witness ==
  /\ last.op = "bulk"
  /\ last.route = "POST /api/students/bulk-users"
  /\ \E i \in Calls(last.log, "deleteUser") : last.log[i].out = "ok"
  /\ \E d \in last.batch.inserted :
       d \in profiles["student"] /\ ~HasIdentity(d.extId)

\* the request body passes the validation the specification lists; the
\* address is judged without the blanks around it, which some handlers trim
\* before they test it
InputValid(kind, in) ==
  /\ ~Missing(in.name) /\ ~Missing(in.email) /\ ~Missing(in.password)
  /\ kind # "user" => ~Missing(in.group)
  /\ EmailRegexTest(Trim(in.email))
  /\ Len(in.password) >= 6
  /\ kind = "student" =>
       /\ ~Missing(in.regNo)
       /\ in.status \in {"Active", "Hold"}
       /\ RegNoRegexTest(in.regNo)

BulkKind(b) ==
  IF b.op = "POST /api/students/bulk-users" THEN "student"
  ELSE IF b.op = "POST /bulk-users (users)" THEN "user"
  ELSE TypeModel(b.type)

NoCallForInvalid(b) ==
  \A i \in 1..Len(b.inputs) :
    ~InputValid(BulkKind(b), b.inputs[i]) =>
      b.calls[i] = 0 /\ ~b.results[i].success

\* C13: an input that fails validation (a required field missing, a bad
\* e-mail shape, a password under 6 characters, a registration number that
\* is not alphanumeric, a status other than Active or Hold) causes no call
\* to Firebase Auth or MongoDB, in a single create and for each user of a
\* bulk create.
C13_ValidationFirst ==
  /\ (last.op = "create" /\ ~InputValid(last.kind, last.in)) =>
       last.log = <<>> /\ last.code = 400
  /\ NoCallForInvalid(batch)
  /\ NoCallForInvalid(last.batch)

BothReturned ==
  race.kind # "" /\ \A p \in 1..2 : race.procs[p].pc = "done"

\* C14: for every interleaving of two concurrent creates of one kind with
\* the same normalized e-mail, once both have answered there is at most one
\* profile with that e-mail, a request has passed to deleteUser only the
\* account it created itself, and every profile left has an account whose
\* uid is its staffId / studentId.
C14_ConcurrentCreates ==
  (BothReturned /\ Normal(race.procs[1].in.email) = Normal(race.procs[2].in.email))
  =>
    /\ Cardinality({d \in profiles[race.kind] :
                      d.email = Normal(race.procs[1].in.email)}) <= 1
    /\ \A p \in 1..2 : race.procs[p].dels \subseteq {race.procs[p].made} \ {0}
    /\ \A d \in profiles[race.kind] : HasIdentity(d.extId)

\* C15: in every state reached through the student router's create, bulk
\* create and update, each stored registration number is upper-case, made
\* of the characters A-Z and 0-9 only, and held by one student profile only.
C15_RegNoInvariant ==
  \A d \in profiles["student"] :
    /\ d.regNo = ToUpperCase(d.regNo)
    /\ RegNoRegexTest(d.regNo)
    /\ \A e \in profiles["student"] : e.regNo = d.regNo => e = d

ProfileWrites == {"updateOne", "findByIdAndUpdate", "save"}

\* call i of the log is an updateUser that gave the account a new address
EmailMoved(log, i, before) ==
  /\ log[i].call = "updateUser" /\ log[i].out = "ok" /\ log[i].email # <<>>
  /\ \E a \in before : a.uid = log[i].uid /\ a.email # ToLowerCase(log[i].email)

OldEmail(log, i, before) ==
  (CHOOSE a \in before : a.uid = log[i].uid).email

\* C16: when an update changes the e-mail, updateUser succeeds and the
\* MongoDB write then fails, the response is an error, the Firebase account
\* is under the new e-mail, the profile is still under the old one, and no
\* call is made to repair or roll back the account.
C16_PartialStateSurfaced ==
  [][\A i \in 1..Len(last'.log) :
       (/\ last'.op = "update"
        /\ EmailMoved(last'.log, i, idents)
        /\ \E j \in (i + 1)..Len(last'.log) :
             last'.log[j].call \in ProfileWrites /\ last'.log[j].out # "ok")
       =>
         /\ last'.code >= 400
         /\ \E a \in idents' : /\ a.uid = last'.log[i].uid
                               /\ a.email = ToLowerCase(last'.log[i].email)
         /\ profiles' = profiles
         /\ \A d \in profiles[last'.kind] :
              d.email = OldEmail(last'.log, i, idents) =>
                d \in profiles'[last'.kind]
         /\ \A j \in (i + 1)..Len(last'.log) :
              last'.log[j].call \notin {"updateUser", "deleteUser"}]_vars

\* a staff update moved the account to the new address, updateOne failed,
\* and the profile is still there under the old address
C16_Witness ==
  /\ last.op = "update"
  /\ last.route = "PUT /api/staff/users"
  /\ last.code = 500
  /\ \E i \in 1..Len(last.log) :
       /\ last.log[i].call = "updateUser" /\ last.log[i].out = "ok"
       /\ last.log[i].email = EmailB
       /\ \E a \in idents : a.uid = last.log[i].uid /\ a.email = EmailB
  /\ \E j \in 1..Len(last.log) :
       last.log[j].call = "updateOne" /\ last.log[j].out # "ok"
  /\ \E d \in profiles[last.kind] : d.email = EmailA /\ d.extId = last.uid

\* the request asks for a new e-mail, password or display name
ChangesIdentity(in) ==
  ~Missing(in.newEmail) \/ ~Missing(in.password) \/ ~Missing(in.name)

\* C17: in every update that changes the e-mail, the password or the display
\* name, updateUser is called before any MongoDB write, the write is made
\* only after updateUser succeeded, and a failed updateUser leaves the
\* profile as it was.
C17_IdentityFirst ==
  [][(last'.op = "update" /\ ChangesIdentity(last'.in)) =>
       /\ \A j \in 1..Len(last'.log) :
            last'.log[j].call \in ProfileWrites =>
              \E i \in 1..(j - 1) :
                last'.log[i].call = "updateUser" /\ last'.log[i].out = "ok"
       /\ (\E i \in 1..Len(last'.log) :
             last'.log[i].call = "updateUser" /\ last'.log[i].out # "ok")
            => profiles' = profiles]_vars

\* C18: when the collection of the kind has no profile under oldEmail, an
\* update answers 404 (or 400 before any call, for a body that is not
\* valid) and calls neither updateUser nor a MongoDB write, even when
\* Firebase Auth has an account under oldEmail.
C18_MissingProfileNotFound ==
  [][(/\ last'.op = "update"
      /\ last'.in.ns = ""
      /\ ~Missing(last'.in.email)
      /\ ~\E d \in profiles[last'.kind] : d.email = Normal(last'.in.email))
     =>
       /\ last'.code = 404 \/ (last'.code = 400 /\ last'.log = <<>>)
       /\ \A i \in 1..Len(last'.log) :
            last'.log[i].call \notin ProfileWrites \cup {"updateUser"}
       /\ idents' = idents
       /\ profiles' = profiles]_vars

\* a new e-mail of bad shape (judged without the blanks around it) or a new
\* password under 6 characters
UpdateInvalid(in) ==
  \/ ~Missing(in.newEmail) /\ ~EmailRegexTest(Trim(in.newEmail))
  \/ ~Missing(in.password) /\ Len(in.password) < 6

\* C19: in every update path, a new e-mail of bad shape or a new password
\* under 6 characters is rejected (400, or 404 when the profile is absent)
\* before updateUser or a MongoDB write is called, and neither store changes.
C19_UpdateValidatedFirst ==
  [][(last'.op = "update" /\ UpdateInvalid(last'.in)) =>
       /\ last'.code \in {400, 404}
       /\ \A i \in 1..Len(last'.log) :
            last'.log[i].call \notin ProfileWrites \cup {"updateUser"}
       /\ idents' = idents
       /\ profiles' = profiles]_vars

\* the e-mail the principal of an update has before it, <<>> if none
OldEmailOf(in, kind) ==
  IF in.ns = "" THEN Normal(in.email) ELSE Pick(Addressed(in, kind)).email

\* C20: when the normalized new e-mail differs from the old one and Firebase
\* Auth already has an account under it, the update is refused (400 'already
\* in use', or 404 / a failed call before that) and changes neither store;
\* when the new e-mail equals the old one after normalization, no lookup of
\* the new e-mail is made and no 'already in use' is answered.
C20_NewEmailTaken ==
  [][(/\ last'.op = "update"
      /\ ~Missing(last'.in.newEmail)
      /\ OldEmailOf(last'.in, last'.kind) # <<>>)
     =>
       /\ (/\ Normal(last'.in.newEmail) # OldEmailOf(last'.in, last'.kind)
           /\ \E a \in idents : a.email = Normal(last'.in.newEmail))
          => /\ last'.code = 400 \/ last'.code = 404 \/ ~NoFailure(last'.log)
             /\ idents' = idents
             /\ profiles' = profiles
       /\ Normal(last'.in.newEmail) = OldEmailOf(last'.in, last'.kind)
          => /\ Cardinality(Calls(last'.log, "getUserByEmail")) <= 1
             /\ last'.msg # "New email is already in use"]_vars

\* the update gave d, a profile of the kind, an e-mail it did not have
ProfileEmailChanged(d, before) ==
  d \notin before /\ \E x \in before : x.oid = d.oid /\ x.email # d.email

\* C21: after an update that answers success and changes a principal's
\* e-mail, the Firebase account whose uid is the profile's staffId /
\* studentId has the same lower-case e-mail as the profile; no successful
\* update changes the e-mail on one side only.
C21_EmailAgreement ==
  [][(last'.op = "update" /\ last'.code = 200) =>
       /\ \A d \in profiles'[last'.kind] :
            ProfileEmailChanged(d, profiles[last'.kind]) =>
              \E a \in idents' : a.uid = d.extId /\ a.email = d.email
       /\ \A a \in idents' \ idents :
            \E d \in profiles'[last'.kind] :
              d.extId = a.uid /\ d.email = a.email]_vars

CreateRun(route, in, f) ==
  CASE route = "POST /api/staff/staff" -> StaffCreateRun(in, f)
    [] route = "POST /api/students/student" -> StudentCreateRun(in, f)
    [] route = "POST /student" -> StudentV2CreateRun(in, f)
    [] route = "POST /user" -> UserCreateRun(in, f)

\* the request created an account, its insert failed, and the account is
\* still there afterwards: the compensation did not succeed
CompensationFailed(log, after) ==
  \E i \in Calls(log, "createUser"), j \in Calls(log, "save") :
    /\ i < j /\ log[i].out = "ok" /\ log[j].out # "ok"
    /\ \E a \in after : a.uid = log[i].uid

\* C22: when the profile insert fails after the account was created and
\* the compensating deleteUser fails too, the create still answers, with
\* the status and error it answers when the compensation succeeds.
C22_PrimaryError ==
  [][(last'.op = "create" /\ CompensationFailed(last'.log, idents')) =>
       LET r == CreateRun(last'.route, last'.in, [at |-> "save", del |-> FALSE])
       IN /\ last'.code # 0
          /\ last'.code = r.code
          /\ last'.msg = r.msg]_vars

\* C23: when a bulk create answers, every compensating deleteUser it issued
\* has completed: none is still in progress while the response is on its
\* way to the caller.
C23_CompensationAwaited ==
  last.op = "bulk" => pending = {}

\* C24: after a successful create with input e-mail E, the profile created
\* and the Firebase account under its staffId / studentId / uid both carry
\* E trimmed and in lower case.
C24_NormalizedOnBothSides ==
  [][(last'.op = "create" /\ last'.code = 201) =>
       \E d \in profiles'[last'.kind] \ profiles[last'.kind] :
         /\ d.email = Trim(ToLowerCase(last'.in.email))
         /\ \E a \in idents' :
              a.uid = d.extId /\ a.email = Trim(ToLowerCase(last'.in.email))]_vars

\* a generic user was created from an address typed in upper case
C24_Witness ==
  /\ last.op = "create" /\ last.code = 201 /\ last.kind = "user"
  /\ last.in.email = EmailAUp
  /\ \E d \in profiles["user"] :
       /\ d.email = EmailA
       /\ \E a \in idents : a.uid = d.extId /\ a.email = EmailA

EmailExistsMessages ==
  {"Email already exists in Firebase",
   "Email already exists in Firebase authentication system",
   "Email already registered"}

\* the createUser call of the request was rejected with out
CreateRejected(log, out) ==
  \E i \in Calls(log, "createUser") : log[i].out = out

\* C25: a create whose createUser is rejected answers with a conflict (4xx,
\* 'already exists') for auth/email-already-exists, with a different 4xx for
\* auth/weak-password and with a 5xx for any other Firebase error; in all
\* three cases no profile is inserted.
C25_CreateErrorMapping ==
  [][(/\ last'.op = "create"
      /\ \E i \in Calls(last'.log, "createUser") : last'.log[i].out # "ok")
     =>
       /\ profiles' = profiles
       /\ CreateRejected(last'.log, "auth/email-already-exists") =>
            /\ last'.code \in 400..499
            /\ last'.msg \in EmailExistsMessages
       /\ CreateRejected(last'.log, "auth/weak-password") =>
            /\ last'.code \in 400..499
            /\ last'.msg \notin EmailExistsMessages
       /\ CreateRejected(last'.log, "auth/internal-error") =>
            last'.code \in 500..599]_vars

\* two student creates with different e-mails and the same normalized
\* registration number have both answered
SameRegNoReturned ==
  /\ BothReturned
  /\ race.kind = "student"
  /\ Normal(race.procs[1].in.email) # Normal(race.procs[2].in.email)
  /\ Trim(ToUpperCase(race.procs[1].in.regNo))
       = Trim(ToUpperCase(race.procs[2].in.regNo))

\* C26: for every interleaving of two concurrent student creates with
\* different e-mails and the same normalized registration number, once both
\* have answered exactly one student profile has that number, the account
\* of the request that failed is gone and the account of the one that
\* succeeded exists.
C26_SameRegNoRace ==
  SameRegNoReturned =>
    /\ Cardinality({d \in profiles["student"] :
                      d.regNo = Trim(ToUpperCase(race.procs[1].in.regNo))}) = 1
    /\ \A p \in 1..2 :
         /\ (race.procs[p].code # 201 /\ race.procs[p].made # 0)
              => ~HasIdentity(race.procs[p].made)
         /\ race.procs[p].code = 201
              => /\ race.procs[p].made # 0
                 /\ HasIdentity(race.procs[p].made)

\* both requests passed the pre-checks and created their accounts; one lost
\* at the unique index on regNo and its catch block ran
C26_Witness ==
  /\ SameRegNoReturned
  /\ \E p \in 1..2 :
       /\ race.procs[p].err = "E11000 regNo"
       /\ race.procs[p].dels = {race.procs[p].made}
       /\ race.procs[p].made # 0
       /\ race.procs[3 - p].code = 201

\* C27: a create or bulk create passes to deleteUser only accounts that its
\* own createUser calls returned; an account that existed before the
\* request is still there after it.
C27_DeletesOnlyOwn ==
  [][/\ last'.op = "create" =>
          /\ \A i \in Calls(last'.log, "deleteUser") :
               \E j \in Calls(last'.log, "createUser") :
                 j < i /\ last'.log[j].out = "ok"
                       /\ last'.log[j].uid = last'.log[i].uid
          /\ \A a \in idents : \E b \in idents' : b.uid = a.uid
     /\ (last'.op = "bulk" /\ last' # last) =>
          /\ \A i \in Calls(last'.log, "deleteUser") :
               last'.log[i].uid \in last'.batch.accounts
          /\ pending' \subseteq last'.batch.accounts]_vars

\* C28: a delete by e-mail that answers 404 because the collection of the
\* kind has no profile under that e-mail leaves Firebase Auth as it was; the
\* account of a principal of another kind with that e-mail is not deleted.
C28_NotFoundChangesNothing ==
  [][(/\ last'.op = "delete"
      /\ last'.in.ns = ""
      /\ ~Missing(last'.in.email)
      /\ last'.code = 404)
     => idents' = idents]_vars


\* the status of the stored meeting id before and after a step
StatusMoved(id) ==
  /\ \E m \in meetings : m.id = id
  /\ \E m \in meetings' : m.id = id
  /\ (CHOOSE m \in meetings : m.id = id).status
       # (CHOOSE m \in meetings' : m.id = id).status

StatusBefore(id) == (CHOOSE m \in meetings : m.id = id).status
StatusAfter(id) == (CHOOSE m \in meetings' : m.id = id).status

\* C29: over any sequence of createMeeting, startMeeting, endMeeting,
\* joinMeeting and updateMeeting calls, the status of a stored meeting only
\* moves scheduled -> live (by startMeeting) and live -> ended (by
\* endMeeting); an ended or cancelled meeting never becomes live or
\* scheduled again.
C29_StatusLifecycle ==
  [][\A id \in MeetingIds :
       StatusMoved(id) =>
         /\ \/ /\ StatusBefore(id) = "scheduled"
               /\ StatusAfter(id) = "live"
               /\ last'.op = "startMeeting"
            \/ /\ StatusBefore(id) = "live"
               /\ StatusAfter(id) = "ended"
               /\ last'.op = "endMeeting"
         /\ StatusBefore(id) \in {"ended", "cancelled"}
              => StatusAfter(id) \notin {"live", "scheduled"}]_vars

\* C30: in every stored state reached by joinMeeting and endMeeting calls,
\* totalAttendees of a meeting equals the number of its attendees whose
\* status is 'joined'.
C30_AttendeeCount ==
  \A m \in meetings :
    m.totalAttendees
      = Cardinality({i \in 1..Len(m.attendees) : m.attendees[i].status = "joined"})

====
